---- MODULE Spec2Model ----
(***************************************************************************)
(* Verification model of the NIF import pipeline of io_scene_nif:          *)
(*   - armature_import.py : mark_armatures_bones, complete_bone_tree,      *)
(*                          find_correction_matrix, import_armature,       *)
(*                          import_bone                                    *)
(*   - animation_import.py: get_frames_per_second, set_animation,          *)
(*                          import_text_keys, import_armature_animation,   *)
(*                          get_extend_from_flags, import_kf_root          *)
(*   - object_import.py   : is_grouping_node, import_name, import_empty     *)
(*   - material_import.py : import_material, set_alpha                     *)
(* Floating point values are modelled as exact rationals: a key time is a  *)
(* number of ticks of 1/TicksPerSecond s, a coordinate a number of units   *)
(* of 1/UnitsPerOne.                                                       *)
(***************************************************************************)
EXTENDS Integers, Sequences, FiniteSets, TLC

VARIABLES
    \* ---- the parsed scene graph (read-only once parsed) ----
    n_parent,        \* block -> its _parent back reference (None for a root)
    n_type,          \* block -> its NifFormat class
    n_name,          \* block -> its name
    n_skin,          \* block -> its skin instance, or NoSkin
    props,           \* NifOp.props / NifData / importer settings
    \* ---- armature module state ----
    DICT_ARMATURES,  \* armature.DICT_ARMATURES: skeleton root -> list of bones
    DICT_NAMES,      \* obj.DICT_NAMES: block -> Blender name
    pc,              \* position of the running operation
    \* ---- the skin instance loop of mark_armatures_bones, step by step ----
    skelroot,        \* skininst.skeleton_root of the loop (None outside it)
    skin_todo,       \* the bones of skininst.bones not iterated yet
    cbt_bone,        \* argument of the active complete_bone_tree call
    cbt_first,       \* the bone the outermost complete_bone_tree call got
    \* ---- animation module state ----
    roots,           \* the roots get_frames_per_second scans, each the list of
                     \* the animation blocks of its tree
    FPS,             \* animation.FPS
    animation_fps,   \* animation.fps
    armature_fps,    \* armature.fps
    keyframes,       \* the keys the running handler has written so far, in
                     \* order (for a bone: the channels of the bone's group)
    bone_idx,        \* pose bones import_armature_animation has gone through
    kfc,             \* the keyframe controller of the pose bone being imported
    extrapolation,   \* what the fcurves of the bone's group were set to
    scene,           \* bpy.context.scene: frame_start, frame_end, frame_current
    n_flags,         \* the controller flags handed to get_extend_from_flags
    extend,          \* the extend mode last derived, and whether it warned
    \* ---- find_correction_matrix ----
    corr_block,      \* the block find_correction_matrix is called on
    m_correction,    \* the matrix it returned (NoMatrix before the call)
    \* ---- import_armature / import_bone ----
    n_armature,      \* the armature tree import_armature is called on
    edit_bones,      \* b_armature_data.edit_bones: block -> head and tail
    \* ---- the animation data behind a controller ----
    kf_data,         \* the data import_armature_animation read for the pose bone
    kf_block,        \* the controlled block of the kf file import_kf_root merges
    n_ctrl,          \* the keyframe controller of the node animated by it
    DICT_BONE_PRIORITIES,  \* armature.DICT_BONE_PRIORITIES, for that node:
                     \* <<>> without an entry, else <<priority>>
    \* ---- one rotation key of a bone ----
    rot_key,         \* its encoding, the total, bind and extra rotation
    rot_channel,     \* the rotation written to the pose bone (NoMatrix: none)
    \* ---- import_name ----
    DICT_BLOCKS,     \* armature.DICT_BLOCKS: the pairs <<Blender name, block>>
    bpy_data,        \* the names in bpy.data.objects, materials and meshes
    name_call,       \* the block and max_length the last import_name call got
    name_ret,        \* what that call returned
    \* ---- import_material ----
    n_mat_prop,      \* the NiMaterialProperty of the geometry (or none)
    n_alpha_prop,    \* its NiAlphaProperty (or none)
    n_specular_prop, \* whether it has a NiSpecularProperty
    version_14000004,  \* NifData.data.version == 0x14000004
    b_mat,           \* the Blender material import_material is making
    \* ---- the translation keys of a bone ----
    loc_sources,     \* for every location key written for the pose bone: its
                     \* frame and where its rotation and scale were taken from
    kf_warnings,     \* the warnings import_kf_root has logged
    \* ---- the extra matrices of the bones ----
    DICT_BONES_EXTRA_MATRIX,  \* armature.DICT_BONES_EXTRA_MATRIX: block -> how
                     \* often its entry was assigned (0: no entry)
    extra_reads,     \* block -> how often import_armature_animation read its
                     \* extra matrix
    bone_todo,       \* the import_bone calls still to come, next one first
    pose_bones,      \* b_armature.pose.bones, in the order the bones were made
    import_animation,  \* NifOp.props.animation
    dict_bones_extra_matrix  \* what the armature module binds this name to

scene_vars == <<n_parent, n_type, n_name, n_skin, props>>

bone_vars == <<DICT_ARMATURES, DICT_NAMES, skelroot, skin_todo, cbt_bone, cbt_first>>

fps_vars == <<roots, FPS>>

anim_vars == <<animation_fps, armature_fps, keyframes, bone_idx, kfc,
               extrapolation, scene>>

flag_vars == <<n_flags, extend>>

corr_vars == <<corr_block, m_correction>>

edit_vars == <<n_armature, edit_bones>>

kf_vars == <<kf_data, kf_block, n_ctrl, DICT_BONE_PRIORITIES>>

rot_vars == <<rot_key, rot_channel>>

name_vars == <<DICT_BLOCKS, bpy_data, name_call, name_ret>>

mat_vars == <<n_mat_prop, n_alpha_prop, n_specular_prop, version_14000004, b_mat>>

track_vars == <<loc_sources, kf_warnings>>

cache_vars == <<DICT_BONES_EXTRA_MATRIX, extra_reads, bone_todo, pose_bones,
                import_animation, dict_bones_extra_matrix>>

ext_vars == <<name_vars, mat_vars, track_vars, cache_vars>>

vars == <<scene_vars, bone_vars, pc, fps_vars, anim_vars, flag_vars, corr_vars,
          edit_vars, kf_vars, rot_vars, ext_vars>>

-----------------------------------------------------------------------------
(* Bounds of the model *)

NumNodes == 4        \* blocks of the scene graph
MaxSkinBones == 2    \* length of skininst.bones
MaxNameLen == 1      \* characters of a block name
MaxSelBones == 1     \* bones of the selected Blender armature
MaxRoots == 2        \* roots handed to get_frames_per_second
MaxBlocks == 1       \* animation blocks in the tree of one root
MaxKeys == 2         \* keys of one key list
MaxCtrl == 4         \* control points of a B-spline basis
MaxAnimKeys == 2     \* keys of a rotation or translation key list of a node
MaxScaleKeys == 1    \* keys of a scale key list of a node
MaxEulerKeys == 1    \* keys of each of the three xyz_rotations key lists
NumBones == 2        \* pose bones of the armature
MaxMorphs == 2       \* morphs of a NiGeomMorpherController
MaxChildBones == 2   \* bone children of the block find_correction_matrix gets
MaxFlags == 127      \* largest controller flags value
NumArmBlocks == 3    \* blocks below the armature import_armature is called on
NumNamedBlocks == 2  \* blocks import_name is called on
MaxSelNameLen == 3   \* characters of a bone name of the selected armature
MaxSelectedBones == 2  \* bones of the selected armature when names are longer

-----------------------------------------------------------------------------
(* Generic helpers *)

\* Python's None (a null Ptr of the parsed file, a missing _parent)
None == 0

Nodes == 1..NumNodes

SeqsUpTo(S, n) == UNION {[1..k -> S] : k \in 0..n}

\* x in list
InList(x, list) == \E i \in 1..Len(list) : list[i] = x

\* the elements of a set of integers as an ascending list
RECURSIVE SortedSeq(_)
SortedSeq(S) ==
    IF S = {} THEN <<>>
    ELSE LET m == CHOOSE x \in S : \A y \in S : x <= y
         IN <<m>> \o SortedSeq(S \ {m})

-----------------------------------------------------------------------------
(* The scene graph as pyffi hands it to the importer *)

NiNodeTypes == {"NiNode", "NiLODNode", "RootCollisionNode"}
GeomTypes == {"NiTriShape"}

\* isinstance(block, NifFormat.NiNode)
IsNiNode(n) == n # None /\ n_type[n] \in NiNodeTypes

\* isinstance(block, NifFormat.NiTriBasedGeom)
IsGeom(n) == n # None /\ n_type[n] \in GeomTypes

NoSkin == [is_skin |-> FALSE, skeleton_root |-> None, bones |-> <<>>]

\* block.children of a NiNode, in file order; also its NiAVObject get_refs()
Children(n) == SortedSeq({c \in Nodes : n_parent[c] = n})

\* block.tree(): the block and then the trees of its references, depth first
RECURSIVE Tree(_)
RECURSIVE TreeOfAll(_)
Tree(n) == <<n>> \o TreeOfAll(Children(n))
TreeOfAll(list) ==
    IF list = <<>> THEN <<>> ELSE Tree(Head(list)) \o TreeOfAll(Tail(list))

\* bytes.find(sub) != -1
NameFind(name, sub) ==
    \E i \in 0..(Len(name) - Len(sub)) : SubSeq(name, i + 1, i + Len(sub)) = sub

\* block.find(block_name=..., block_type=NiNode or nothing): the first match
\* of the tree in depth first order, None when there is none; an empty
\* block_name matches nothing
RECURSIVE FindIn(_, _, _)
FindIn(list, block_name, ninode_only) ==
    IF list = <<>> THEN None
    ELSE IF /\ block_name # <<>>
            /\ n_name[Head(list)] = block_name
            /\ (ninode_only => IsNiNode(Head(list)))
         THEN Head(list)
         ELSE FindIn(Tail(list), block_name, ninode_only)

Find(n, block_name, ninode_only) == FindIn(Tree(n), block_name, ninode_only)

\* is_grouping_node: the children that are grouped, <<>> when not a grouping
\* node. The block name is a bytes object, so the comparison of its last nine
\* characters with the str " nonaccum" is never equal and nothing is stripped.
is_grouping_node(n_block) ==
    IF ~props.combine_shapes THEN <<>>
    ELSE IF ~IsNiNode(n_block) THEN <<>>
    ELSE IF n_type[n_block] = "NiLODNode" THEN <<>>
    ELSE IF n_type[n_block] = "RootCollisionNode"
         THEN SelectSeq(Children(n_block), IsGeom)
    ELSE IF n_name[n_block] = <<>> THEN <<>>
    ELSE SelectSeq(Children(n_block),
                   LAMBDA child : IsGeom(child)
                                  /\ NameFind(n_name[child], n_name[n_block]))

-----------------------------------------------------------------------------
(* armature.DICT_ARMATURES and obj.DICT_NAMES as tables over the blocks *)

NoArmatures == [n \in Nodes |-> [present |-> FALSE, bones |-> <<>>]]
NoNames == [n \in Nodes |-> [present |-> FALSE, name |-> <<>>]]

\* skelroot in armature.DICT_ARMATURES
IsArmature(arm, root) == root # None /\ arm[root].present

\* not armature.DICT_ARMATURES
NoArmatureYet(arm) == \A n \in Nodes : ~arm[n].present

\* armature.DICT_ARMATURES[skelroot] = []
NewArmature(arm, root) ==
    [arm EXCEPT ![root] = [present |-> TRUE, bones |-> <<>>]]

\* armature.DICT_ARMATURES[skelroot].append(bone)
AppendBone(arm, root, bone) == [arm EXCEPT ![root].bones = Append(@, bone)]

\* bone in armature.DICT_ARMATURES[skelroot]
IsBoneOf(arm, root, bone) == InList(bone, arm[root].bones)

-----------------------------------------------------------------------------
(* complete_bone_tree *)

\* One activation of complete_bone_tree(bone, skelroot), up to its recursive
\* call: the table after it, and the bone of the recursive call ("call"), or
\* that it returns, or the exception it raises. None has no _parent.
\* complete_bone_tree without its recursive call: marks the parent only
CompleteBoneTreeLevel_NoAscent(bone, root, arm) ==
    IF ~IsArmature(arm, root) \/ ~IsBoneOf(arm, root, bone)
    THEN [arm |-> arm, what |-> "AssertionError", bone |-> None]
    ELSE IF bone = None
    THEN [arm |-> arm, what |-> "AttributeError", bone |-> None]
    ELSE LET boneparent == n_parent[bone]
         IN [arm  |-> IF boneparent # root /\ ~IsBoneOf(arm, root, boneparent)
                      THEN AppendBone(arm, root, boneparent) ELSE arm,
             what |-> "return", bone |-> None]

CompleteBoneTreeLevel(bone, root, arm) ==
    IF ~IsArmature(arm, root) \/ ~IsBoneOf(arm, root, bone)
    THEN [arm |-> arm, what |-> "AssertionError", bone |-> None]
    ELSE IF bone = None
    THEN [arm |-> arm, what |-> "AttributeError", bone |-> None]
    ELSE LET boneparent == n_parent[bone]
         IN IF boneparent # root
            THEN [arm  |-> IF ~IsBoneOf(arm, root, boneparent)
                           THEN AppendBone(arm, root, boneparent)
                           ELSE arm,
                  what |-> "call",
                  bone |-> boneparent]
            ELSE [arm |-> arm, what |-> "return", bone |-> None]

\* complete_bone_tree(bone, skelroot) with all its recursive calls, on the
\* importer state st = [arm, names, status]
RECURSIVE complete_bone_tree(_, _, _)
complete_bone_tree(bone, root, st) ==
    LET level == CompleteBoneTreeLevel(bone, root, st.arm)
    IN CASE level.what = "call" ->
                complete_bone_tree(level.bone, root, [st EXCEPT !.arm = level.arm])
         [] level.what = "return" -> st
         [] OTHER -> [st EXCEPT !.status = level.what]

-----------------------------------------------------------------------------
(* mark_armatures_bones *)

\* the tree without the test for grouping nodes
RECURSIVE MarkTreeAsBones_WithGroupingNodes(_, _, _)
MarkTreeAsBones_WithGroupingNodes(tree, root, arm) ==
    IF tree = <<>> THEN arm
    ELSE LET bone == Head(tree)
             skip == bone = root \/ ~IsNiNode(bone) \/ IsBoneOf(arm, root, bone)
         IN MarkTreeAsBones_WithGroupingNodes(Tail(tree), root,
                IF skip THEN arm ELSE AppendBone(arm, root, bone))

\* lines 307-315: every NiNode of skelroot.tree() that is no grouping node
RECURSIVE MarkTreeAsBones(_, _, _)
MarkTreeAsBones(tree, root, arm) ==
    IF tree = <<>> THEN arm
    ELSE LET bone == Head(tree)
             skip == \/ bone = root
                     \/ ~IsNiNode(bone)
                     \/ is_grouping_node(bone) # <<>>
                     \/ IsBoneOf(arm, root, bone)
         IN MarkTreeAsBones(Tail(tree), root,
                            IF skip THEN arm ELSE AppendBone(arm, root, bone))

\* lines 291-316: skeleton only import
MarkSkeletonOnly(ni_block, st) ==
    IF ~IsNiNode(ni_block) THEN [st EXCEPT !.status = "NifError"]
    ELSE LET bip01 == Find(ni_block, props.bip01_name, TRUE)
             root == IF props.morrowind /\ bip01 # None THEN bip01 ELSE ni_block
             arm1 == IF ~IsArmature(st.arm, root)
                     THEN NewArmature(st.arm, root) ELSE st.arm
         IN [st EXCEPT !.arm = MarkTreeAsBones(Tree(root), root, arm1)]

\* lines 325-335: the bones of the selected Blender armature, by name
RECURSIVE MarkSelectedBones(_, _, _)
MarkSelectedBones(bone_names, root, st) ==
    IF bone_names = <<>> \/ st.status # "ok" THEN st
    ELSE LET bone_block == Find(root, Head(bone_names), FALSE)
             st1 == IF bone_block = None THEN st
                    ELSE complete_bone_tree(bone_block, root,
                           [st EXCEPT
                              !.names[bone_block] =
                                  [present |-> TRUE, name |-> Head(bone_names)],
                              !.arm = AppendBone(st.arm, root, bone_block)])
         IN MarkSelectedBones(Tail(bone_names), root, st1)

\* lines 319-335: attaching to the selected armature
MarkSelectedArmature(ni_block, st) ==
    LET root == Find(ni_block, props.selected_name, FALSE)
    IN IF root = None THEN [st EXCEPT !.status = "NifError"]
       ELSE MarkSelectedBones(props.selected_bones, root,
                              [st EXCEPT !.arm = NewArmature(st.arm, root)])

\* lines 356-366: the bones of a skin instance
RECURSIVE MarkSkinBones(_, _, _)
MarkSkinBones(bones, root, st) ==
    IF bones = <<>> \/ st.status # "ok" THEN st
    ELSE LET boneBlock == Head(bones)
             st1 == IF boneBlock = None THEN st
                    ELSE complete_bone_tree(boneBlock, root,
                           IF ~IsBoneOf(st.arm, root, boneBlock)
                           THEN [st EXCEPT !.arm = AppendBone(st.arm, root, boneBlock)]
                           ELSE st)
         IN MarkSkinBones(Tail(bones), root, st1)

\* lines 369-387: all nodes as bones when extra nodes are asked for
RECURSIVE MarkExtraNodes(_, _, _)
MarkExtraNodes(tree, root, st) ==
    IF tree = <<>> \/ st.status # "ok" THEN st
    ELSE LET bone == Head(tree)
             skip == \/ bone = root
                     \/ ~IsNiNode(bone)
                     \/ n_type[bone] = "NiLODNode"
                     \/ is_grouping_node(bone) # <<>>
                     \/ IsBoneOf(st.arm, root, bone)
             st1 == IF skip THEN st
                    ELSE complete_bone_tree(bone, root,
                           [st EXCEPT !.arm = AppendBone(st.arm, root, bone)])
         IN MarkExtraNodes(Tail(tree), root, st1)

\* lines 338-387: a geometry block with a skin instance
MarkSkinInstance(ni_block, st) ==
    LET root == n_skin[ni_block].skeleton_root
        known == IsArmature(st.arm, root)
    IN IF props.skeleton = "GEOMETRY_ONLY" /\ ~known
       THEN [st EXCEPT !.status = "NifError"]
       ELSE LET st1 == IF props.skeleton = "EVERYTHING" /\ ~known
                       THEN [st EXCEPT !.arm = NewArmature(st.arm, root)]
                       ELSE st
                st2 == MarkSkinBones(n_skin[ni_block].bones, root, st1)
            IN IF props.IMPORT_EXTRANODES
               THEN MarkExtraNodes(Tree(root), root, st2)
               ELSE st2

\* mark_armatures_bones(ni_block) with its recursion down the tree
RECURSIVE mark_armatures_bones(_, _)
RECURSIVE MarkChildren(_, _)
mark_armatures_bones(ni_block, st) ==
    IF st.status # "ok" THEN st
    ELSE IF props.skeleton = "SKELETON_ONLY" \/ props.armature_nifs
    THEN MarkSkeletonOnly(ni_block, st)
    ELSE LET st1 == IF props.skeleton = "GEOMETRY_ONLY" /\ NoArmatureYet(st.arm)
                    THEN MarkSelectedArmature(ni_block, st)
                    ELSE st
             st2 == IF st1.status = "ok" /\ IsGeom(ni_block) /\ n_skin[ni_block].is_skin
                    THEN MarkSkinInstance(ni_block, st1)
                    ELSE st1
         IN MarkChildren(Children(ni_block), st2)
MarkChildren(children, st) ==
    IF children = <<>> THEN st
    ELSE MarkChildren(Tail(children), mark_armatures_bones(Head(children), st))

-----------------------------------------------------------------------------
(* Rational arithmetic for times: a time is <<numerator, denominator>> in  *)
(* seconds, the denominator positive                                        *)

TicksPerSecond == 4 * 25

\* a key time of ticks/TicksPerSecond seconds
TickTime(ticks) == <<ticks, TicksPerSecond>>

Abs(x) == IF x < 0 THEN -x ELSE x

\* Python's int() of the rational a/b (b > 0): truncation towards zero
IntTrunc(a, b) == IF a >= 0 THEN a \div b ELSE -((-a) \div b)

\* int(time * fps + 0.5)
RoundedFrame(time, fps) == IntTrunc(2 * time[1] * fps + time[2], 2 * time[2])

RECURSIVE GCD(_, _)
GCD(a, b) == IF b = 0 THEN a ELSE GCD(b, a % b)

\* x + y in lowest terms
RatAdd(x, y) ==
    LET num == x[1] * y[2] + y[1] * x[2]
        den == x[2] * y[2]
        g == GCD(den, Abs(num))
    IN <<num \div g, den \div g>>
RatLess(x, y) == x[1] * y[2] < y[1] * x[2]

-----------------------------------------------------------------------------
(* get_frames_per_second *)

NoTrack == <<>>

\* the six key lists of a NiKeyframeData, as lists of key times in ticks:
\* translations, scales, quaternion_keys, xyz_rotations[0..2]
KfdBlock(tracks) == [type |-> "NiKeyframeData", tracks |-> tracks,
                     basis_data |-> FALSE, num_control_points |-> 0,
                     start_time |-> 0, stop_time |-> 0]

\* a NiBSplineInterpolator: whether it has basis data, the control points of
\* the basis, start and stop time in ticks
BSplineBlock(basis, ncp, start, stop) ==
    [type |-> "NiBSplineInterpolator", tracks |-> <<>>,
     basis_data |-> basis, num_control_points |-> ncp,
     start_time |-> start, stop_time |-> stop]

\* a NiUVData: the key lists of its four uv_groups
UVBlock(groups) == [type |-> "NiUVData", tracks |-> groups,
                    basis_data |-> FALSE, num_control_points |-> 0,
                    start_time |-> 0, stop_time |-> 0]

\* any other block of the tree
OtherBlock == [type |-> "NiNode", tracks |-> <<>>,
               basis_data |-> FALSE, num_control_points |-> 0,
               start_time |-> 0, stop_time |-> 0]

RECURSIVE TrackTimes(_)
TrackTimes(tracks) ==
    IF tracks = <<>> THEN <<>>
    ELSE [i \in 1..Len(Head(tracks)) |-> TickTime(Head(tracks)[i])]
         \o TrackTimes(Tail(tracks))

\* lines 188-190: point * (stop_time - start_time) / (num_control_points - 2)
\* for point in range(num_control_points - 2)
BSplineTimes(kfi) ==
    IF kfi.num_control_points - 2 <= 0 THEN <<>>
    ELSE [i \in 1..(kfi.num_control_points - 2) |->
            <<(i - 1) * (kfi.stop_time - kfi.start_time),
              TicksPerSecond * (kfi.num_control_points - 2)>>]

\* lines 177-193 for the blocks of one type
\* lines 177-193 without the check of basis_data at line 185
RECURSIVE TimesOfType_NoBasisCheck(_, _)
TimesOfType_NoBasisCheck(blocks, type) ==
    IF blocks = <<>> THEN <<>>
    ELSE LET b == Head(blocks)
             own == IF b.type # type THEN <<>>
                    ELSE IF type = "NiBSplineInterpolator"
                         THEN BSplineTimes(b)
                         ELSE TrackTimes(b.tracks)
         IN own \o TimesOfType_NoBasisCheck(Tail(blocks), type)

RECURSIVE TimesOfType(_, _)
TimesOfType(blocks, type) ==
    IF blocks = <<>> THEN <<>>
    ELSE LET b == Head(blocks)
             own == IF b.type # type THEN <<>>
                    ELSE IF type = "NiBSplineInterpolator"
                         THEN IF ~b.basis_data THEN <<>> ELSE BSplineTimes(b)
                         ELSE TrackTimes(b.tracks)
         IN own \o TimesOfType(Tail(blocks), type)

\* lines 176-193: all key times of the roots
RECURSIVE KeyTimes(_)
KeyTimes(rts) ==
    IF rts = <<>> THEN <<>>
    ELSE TimesOfType(Head(rts), "NiKeyframeData")
         \o TimesOfType(Head(rts), "NiBSplineInterpolator")
         \o TimesOfType(Head(rts), "NiUVData")
         \o KeyTimes(Tail(rts))

\* abs(int(time * fps + 0.5) - (time * fps)), as a rational
FrameDiff(time, fps) ==
    <<Abs(RoundedFrame(time, fps) * time[2] - time[1] * fps), time[2]>>

\* sum(abs(int(time * fps + 0.5) - (time * fps)) for time in key_times)
RECURSIVE TotalDiff(_, _)
TotalDiff(key_times, fps) ==
    IF key_times = <<>> THEN <<0, 1>>
    ELSE RatAdd(FrameDiff(Head(key_times), fps), TotalDiff(Tail(key_times), fps))

DefaultFps == 30
\* the test values without 25
TestFps_Without25 == <<20, 35>>
TestFps == <<20, 25, 35>>

\* lines 204-209 with "diff <= lowest_diff" at line 207
RECURSIVE BestFps_NotStrict(_, _, _, _)
BestFps_NotStrict(tests, key_times, fps, lowest_diff) ==
    IF tests = <<>> THEN fps
    ELSE LET test_fps == Head(tests)
             diff == TotalDiff(key_times, test_fps)
         IN IF ~RatLess(lowest_diff, diff)
            THEN BestFps_NotStrict(Tail(tests), key_times, test_fps, diff)
            ELSE BestFps_NotStrict(Tail(tests), key_times, fps, lowest_diff)

\* lines 204-209: the loop over the test values
RECURSIVE BestFps(_, _, _, _)
BestFps(tests, key_times, fps, lowest_diff) ==
    IF tests = <<>> THEN fps
    ELSE LET test_fps == Head(tests)
             diff == TotalDiff(key_times, test_fps)
         IN IF RatLess(diff, lowest_diff)
            THEN BestFps(Tail(tests), key_times, test_fps, diff)
            ELSE BestFps(Tail(tests), key_times, fps, lowest_diff)

\* lines 195-211
EstimateFps(key_times) ==
    IF key_times = <<>> THEN DefaultFps
    ELSE BestFps(TestFps, key_times, DefaultFps, TotalDiff(key_times, DefaultFps))

get_frames_per_second(rts) == EstimateFps(KeyTimes(rts))

-----------------------------------------------------------------------------
(* The inputs: scene graphs and import settings *)

Chars == {1}
NameSet == SeqsUpTo(Chars, MaxNameLen)
SceneTypes == {"NiNode", "NiTriShape"}

\* Trees of 1..NumNodes blocks rooted at block 1; set_parents gives every
\* child of a NiNode its _parent. Blocks past the size are not in the file.
ParentMaps ==
    {p \in [Nodes -> 0..NumNodes] :
        /\ p[1] = None
        /\ \A n \in Nodes \ {1} : p[n] < n
        /\ \A n \in Nodes \ {1} : p[n] = None => \A m \in n..NumNodes : p[m] = None}

InFile(p, n) == n = 1 \/ p[n] # None

TypeMaps(p) ==
    {t \in [Nodes -> SceneTypes] :
        /\ \A n \in Nodes : p[n] # None => t[p[n]] \in NiNodeTypes
        /\ \A n \in Nodes : ~InFile(p, n) => t[n] = "NiNode"}

NameMaps(p) ==
    {nm \in [Nodes -> NameSet] : \A n \in Nodes : ~InFile(p, n) => nm[n] = <<>>}

DefaultNames == [n \in Nodes |-> <<>>]

NiNodesOf(p, t) == {n \in Nodes : InFile(p, n) /\ t[n] \in NiNodeTypes}

\* skin instances: skeleton_root and bones are Ptr fields to NiNode blocks of
\* the file, a bone Ptr may be null; at most one geometry is skinned
SkinsOf(p, t) ==
    LET ninodes == NiNodesOf(p, t)
        geoms == {n \in Nodes : InFile(p, n) /\ t[n] \in GeomTypes}
        noskins == [n \in Nodes |-> NoSkin]
    IN {noskins} \cup
       {[noskins EXCEPT ![g] = [is_skin |-> TRUE, skeleton_root |-> r, bones |-> b]] :
            g \in geoms, r \in ninodes,
            b \in SeqsUpTo(ninodes \cup {None}, MaxSkinBones)}

NoSkins == [n \in Nodes |-> NoSkin]

Props(mode, nifs, mw, combine, extra, selname, selbones) ==
    [skeleton |-> mode, armature_nifs |-> nifs, morrowind |-> mw,
     bip01_name |-> <<1>>, combine_shapes |-> combine,
     IMPORT_EXTRANODES |-> extra,
     selected_name |-> selname, selected_bones |-> selbones]

SceneIs(p, t, nm, sk, pr) ==
    /\ n_parent = p
    /\ n_type = t
    /\ n_name = nm
    /\ n_skin = sk
    /\ props = pr

\* skeleton only import (asked for, or an Oblivion/Fallout 3 skeleton.nif):
\* names and grouping decide, skin instances are not looked at
SkeletonOnlyInputs ==
    \E p \in ParentMaps : \E t \in TypeMaps(p) : \E nm \in NameMaps(p) :
    \E mw, combine, nifs \in BOOLEAN :
        SceneIs(p, t, nm, NoSkins,
                Props(IF nifs THEN "EVERYTHING" ELSE "SKELETON_ONLY", nifs,
                      mw, combine, FALSE, <<>>, <<>>))

\* import of everything: the skin instances decide
EverythingInputs ==
    \E p \in ParentMaps : \E t \in TypeMaps(p) : \E sk \in SkinsOf(p, t) :
        SceneIs(p, t, DefaultNames, sk,
                Props("EVERYTHING", FALSE, FALSE, FALSE, FALSE, <<>>, <<>>))

\* import of everything with the extra nodes: names and grouping decide too
ExtraNodesInputs ==
    \E p \in ParentMaps : \E t \in TypeMaps(p) : \E sk \in SkinsOf(p, t) :
    \E nm \in NameMaps(p) : \E combine \in BOOLEAN :
        SceneIs(p, t, nm, sk,
                Props("EVERYTHING", FALSE, FALSE, combine, TRUE, <<>>, <<>>))

\* import of the geometry onto the selected Blender armature, whose bone names
\* are given by their nif names (get_bone_name_for_nif applied)
GeometryOnlyInputs ==
    \E p \in ParentMaps : \E t \in TypeMaps(p) : \E nm \in NameMaps(p) :
    \E sk \in SkinsOf(p, t) :
    \E selname \in NameSet : \E selbones \in SeqsUpTo(NameSet, MaxSelBones) :
        SceneIs(p, t, nm, sk,
                Props("GEOMETRY_ONLY", FALSE, FALSE, FALSE, FALSE, selname, selbones))

\* import of the geometry of an Oblivion/Fallout 3 skeleton.nif onto the
\* selected armature: armature_nifs is set whatever the mode asked for
SkeletonFileInputs ==
    \E p \in ParentMaps : \E t \in TypeMaps(p) : \E sk \in SkinsOf(p, t) :
    \E selname \in NameSet :
        SceneIs(p, t, DefaultNames, sk,
                Props("GEOMETRY_ONLY", TRUE, FALSE, FALSE, FALSE, selname, <<>>))

ImporterStart ==
    /\ DICT_ARMATURES = NoArmatures
    /\ DICT_NAMES = NoNames
    /\ pc = "start"
    /\ skelroot = None
    /\ skin_todo = <<>>
    /\ cbt_bone = None
    /\ cbt_first = None

\* the animation module before any animation is imported
NoExtend == [mode |-> "", warned |-> FALSE]
NewScene == [frame_start |-> 1, frame_end |-> 250, frame_current |-> 1]

EstimatorStart ==
    /\ roots = <<>>
    /\ FPS = DefaultFps

NoController == [present |-> FALSE, kind |-> "", flags |-> 0]

ImportStart ==
    /\ keyframes = <<>>
    /\ bone_idx = 0
    /\ kfc = NoController
    /\ extrapolation = ""
    /\ scene = NewScene

AnimationStart ==
    /\ animation_fps = DefaultFps
    /\ armature_fps = DefaultFps
    /\ ImportStart

FlagsStart ==
    /\ n_flags = 0
    /\ extend = NoExtend

NoBlock == [realign |-> 0, is_bone |-> FALSE, row3 |-> <<0, 0, 0>>, children |-> <<>>]
NoMatrix == <<>>

CorrectionStart ==
    /\ corr_block = NoBlock
    /\ m_correction = NoMatrix

\* the blocks below an armature root; 0 stands for the armature root itself
ArmBlocks == 1..NumArmBlocks

\* no armature imported yet, no edit bone created yet
NoArmature ==
    [parent |-> [b \in ArmBlocks |-> 0], is_bone |-> [b \in ArmBlocks |-> FALSE],
     pos |-> [b \in ArmBlocks |-> <<0, 0, 0>>],
     realign |-> 0, epsilon |-> <<1, 1>>, scale |-> <<1, 1>>]

NoEditBone ==
    [present |-> FALSE, head |-> <<0, 0, 0>>, tail |-> <<0, 0, 0>>,
     is_zero_length |-> FALSE]

EditStart ==
    /\ n_armature = NoArmature
    /\ edit_bones = [b \in ArmBlocks |-> NoEditBone]

\* no animation data read, no kf file merged
NoData ==
    [kind |-> "", kfd |-> <<>>, times |-> <<>>, num_rotations |-> 0,
     num_translations |-> 0]

\* the rotation (a quaternion) and the translation an interpolator has
\* besides its data
NoRotation == [w |-> 1, x |-> 0, y |-> 0, z |-> 0]
NoTranslation == [x |-> 0, y |-> 0, z |-> 0]

NoInterpolator ==
    [type |-> "", has_data |-> FALSE, data |-> <<>>, nan |-> FALSE,
     rotation |-> NoRotation, translation |-> NoTranslation]

NoControlledBlock ==
    [present |-> FALSE, interpolator |-> NoInterpolator, priority |-> 0]

NoKeyframeController ==
    [present |-> FALSE, interpolator |-> NoInterpolator, has_data |-> FALSE,
     data |-> <<>>, flags |-> 0]

KfStart ==
    /\ kf_data = NoData
    /\ kf_block = NoControlledBlock
    /\ n_ctrl = NoKeyframeController
    /\ DICT_BONE_PRIORITIES = <<>>

NoRotationKey ==
    [encoding |-> "", total |-> <<>>, bind |-> <<>>, extra |-> <<>>]

RotationStart ==
    /\ rot_key = NoRotationKey
    /\ rot_channel = NoMatrix

\* what import_name returns: nothing yet, None or a name
NoReturn == [kind |-> "", name |-> <<>>]

\* max_length=63
DefaultMaxLength == 63

NoCall == [block |-> None, max_length |-> DefaultMaxLength]

NameStart ==
    /\ DICT_BLOCKS = {}
    /\ bpy_data = {}
    /\ name_call = NoCall
    /\ name_ret = NoReturn

NoMaterialProperty ==
    [present |-> FALSE, ambient_color |-> <<0, 0, 0>>, diffuse_color |-> <<0, 0, 0>>,
     emissive_color |-> <<0, 0, 0>>, specular_color |-> <<0, 0, 0>>,
     emit_multi |-> 0, glossiness |-> 0]

NoMaterial == [present |-> FALSE]

\* self.nif_import.active_obj_name and "_nt_mat"
active_obj_name == <<79>>
nt_mat == <<95, 110, 116, 95, 109, 97, 116>>

MaterialStart ==
    /\ n_mat_prop = NoMaterialProperty
    /\ n_alpha_prop = [present |-> FALSE, threshold |-> 0, flags |-> 0]
    /\ n_specular_prop = FALSE
    /\ version_14000004 = FALSE
    /\ b_mat = NoMaterial

TrackStart ==
    /\ loc_sources = <<>>
    /\ kf_warnings = 0

\* no extra matrix stored or read, no import_bone call pending
CacheStart ==
    /\ DICT_BONES_EXTRA_MATRIX = [b \in ArmBlocks |-> 0]
    /\ extra_reads = [b \in ArmBlocks |-> 0]
    /\ bone_todo = <<>>
    /\ pose_bones = <<>>
    /\ import_animation = FALSE
    /\ dict_bones_extra_matrix = "undefined"

ExtStart ==
    /\ NameStart
    /\ MaterialStart
    /\ TrackStart
    /\ CacheStart

NoScene ==
    SceneIs([n \in Nodes |-> None], [n \in Nodes |-> "NiNode"], DefaultNames, NoSkins,
            Props("EVERYTHING", FALSE, FALSE, FALSE, FALSE, <<>>, <<>>))

-----------------------------------------------------------------------------
(* Spec: one call of mark_armatures_bones on the root block *)

Init ==
    /\ \/ SkeletonOnlyInputs
       \/ EverythingInputs
       \/ ExtraNodesInputs
       \/ GeometryOnlyInputs
       \/ SkeletonFileInputs
    /\ ImporterStart
    /\ EstimatorStart
    /\ AnimationStart
    /\ FlagsStart
    /\ CorrectionStart
    /\ EditStart
    /\ KfStart
    /\ RotationStart
    /\ ExtStart

RootBlock == 1

MarkArmaturesBones ==
    /\ pc = "start"
    /\ LET st == mark_armatures_bones(RootBlock,
                    [arm |-> DICT_ARMATURES, names |-> DICT_NAMES, status |-> "ok"])
       IN /\ DICT_ARMATURES' = st.arm
          /\ DICT_NAMES' = st.names
          /\ pc' = IF st.status = "ok" THEN "done" ELSE st.status
    /\ UNCHANGED <<scene_vars, skelroot, skin_todo, cbt_bone, cbt_first>>
    /\ UNCHANGED <<fps_vars, anim_vars, flag_vars, corr_vars, edit_vars,
                   kf_vars, rot_vars, ext_vars>>

Next == MarkArmaturesBones

Spec == Init /\ [][Next]_vars

-----------------------------------------------------------------------------
(* SpecSel: one call of mark_armatures_bones that attaches the file to the  *)
(* selected Blender armature, whose bones have different names              *)

SelNames == SeqsUpTo(Chars, MaxSelNameLen)

\* data.bones.keys() of the selected armature: names that differ, none empty
SelectedBoneNames ==
    {b \in SeqsUpTo(SelNames \ {<<>>}, MaxSelectedBones) :
        \A i, j \in 1..Len(b) : b[i] = b[j] => i = j}

SelInit ==
    /\ \E p \in ParentMaps : \E selname \in SelNames \ {<<>>} :
       \E nm \in [Nodes -> SelNames] : \E selbones \in SelectedBoneNames :
          /\ \A n \in Nodes : ~InFile(p, n) => nm[n] = <<>>
          /\ SceneIs(p, [n \in Nodes |-> "NiNode"], nm, NoSkins,
                     Props("GEOMETRY_ONLY", FALSE, FALSE, FALSE, FALSE,
                           selname, selbones))
    /\ ImporterStart
    /\ EstimatorStart
    /\ AnimationStart
    /\ FlagsStart
    /\ CorrectionStart
    /\ EditStart
    /\ KfStart
    /\ RotationStart
    /\ ExtStart

SelNext == MarkArmaturesBones

SpecSel == SelInit /\ [][SelNext]_vars

-----------------------------------------------------------------------------
(* SpecSkin: the skin instance loop of mark_armatures_bones (lines 338-366), *)
(* one step per loop iteration and per activation of complete_bone_tree      *)

SkinInit ==
    /\ EverythingInputs
    /\ ImporterStart
    /\ EstimatorStart
    /\ AnimationStart
    /\ FlagsStart
    /\ CorrectionStart
    /\ EditStart
    /\ KfStart
    /\ RotationStart
    /\ ExtStart

\* lines 338-354: the geometry block with the skin instance is reached
SkinInstanceEnter ==
    /\ pc = "start"
    /\ \E ni_block \in Nodes :
          /\ IsGeom(ni_block)
          /\ n_skin[ni_block].is_skin
          /\ skelroot' = n_skin[ni_block].skeleton_root
          /\ skin_todo' = n_skin[ni_block].bones
          /\ DICT_ARMATURES' =
                IF ~IsArmature(DICT_ARMATURES, n_skin[ni_block].skeleton_root)
                THEN NewArmature(DICT_ARMATURES, n_skin[ni_block].skeleton_root)
                ELSE DICT_ARMATURES
    /\ pc' = "skin_loop"
    /\ UNCHANGED <<scene_vars, DICT_NAMES, cbt_bone, cbt_first>>
    /\ UNCHANGED <<fps_vars, anim_vars, flag_vars, corr_vars, edit_vars,
                   kf_vars, rot_vars, ext_vars>>

\* lines 356-366: one iteration of "for boneBlock in skininst.bones", up to
\* the call of complete_bone_tree
SkinBoneNext ==
    /\ pc = "skin_loop"
    /\ IF skin_todo = <<>>
       THEN /\ pc' = "done"
            /\ UNCHANGED <<skin_todo, DICT_ARMATURES, cbt_bone, cbt_first>>
       ELSE LET boneBlock == Head(skin_todo)
            IN /\ skin_todo' = Tail(skin_todo)
               /\ IF boneBlock = None
                  THEN UNCHANGED <<pc, DICT_ARMATURES, cbt_bone, cbt_first>>
                  ELSE /\ DICT_ARMATURES' =
                             IF ~IsBoneOf(DICT_ARMATURES, skelroot, boneBlock)
                             THEN AppendBone(DICT_ARMATURES, skelroot, boneBlock)
                             ELSE DICT_ARMATURES
                       /\ cbt_bone' = boneBlock
                       /\ cbt_first' = boneBlock
                       /\ pc' = "complete_bone_tree"
    /\ UNCHANGED <<scene_vars, DICT_NAMES, skelroot>>
    /\ UNCHANGED <<fps_vars, anim_vars, flag_vars, corr_vars, edit_vars,
                   kf_vars, rot_vars, ext_vars>>

\* lines 395-413: one activation of complete_bone_tree
CompleteBoneTreeStep ==
    /\ pc = "complete_bone_tree"
    /\ LET level == CompleteBoneTreeLevel(cbt_bone, skelroot, DICT_ARMATURES)
       IN /\ DICT_ARMATURES' = level.arm
          /\ cbt_bone' = level.bone
          /\ pc' = CASE level.what = "call" -> "complete_bone_tree"
                     [] level.what = "return" -> "skin_loop"
                     [] OTHER -> level.what
    /\ UNCHANGED <<scene_vars, DICT_NAMES, skelroot, skin_todo, cbt_first>>
    /\ UNCHANGED <<fps_vars, anim_vars, flag_vars, corr_vars, edit_vars,
                   kf_vars, rot_vars, ext_vars>>

SkinNext == SkinInstanceEnter \/ SkinBoneNext \/ CompleteBoneTreeStep

\* the importer is sequential code: a started call keeps running
SpecSkin == SkinInit /\ [][SkinNext]_vars /\ WF_vars(CompleteBoneTreeStep)

-----------------------------------------------------------------------------
(* SpecFps: one call of get_frames_per_second on the roots of a file *)

\* key times of the files, in ticks: 0.0, 0.04, 0.05, 0.09 and 0.2 s
Ticks == {0, 4, 5, 9, 20}
\* stop times of the B-spline interpolators, in ticks (start_time is 0.0)
BSplineStops == {10, 20}

KeyLists == SeqsUpTo(Ticks, MaxKeys)

NumKeyLists == 6     \* translations, scales, quaternion_keys, xyz_rotations[0..2]
NumUVGroups == 4     \* uvdata.uv_groups

\* keyframe data with keys in one of its six key lists
KfdBlocks ==
    {KfdBlock([i \in 1..NumKeyLists |-> IF i = k THEN l ELSE NoTrack]) :
        k \in 1..NumKeyLists, l \in KeyLists}

BSplineBlocks ==
    {BSplineBlock(basis, ncp, 0, stop) :
        basis \in BOOLEAN, ncp \in 0..MaxCtrl, stop \in BSplineStops}

UVBlocks ==
    {UVBlock([i \in 1..NumUVGroups |-> IF i = g THEN l ELSE NoTrack]) :
        g \in 1..NumUVGroups, l \in SeqsUpTo(Ticks, 1)}

AnimBlocks == KfdBlocks \cup BSplineBlocks \cup UVBlocks \cup {OtherBlock}

RootLists == SeqsUpTo(SeqsUpTo(AnimBlocks, MaxBlocks), MaxRoots)

FpsInit ==
    /\ NoScene
    /\ ImporterStart
    /\ AnimationStart
    /\ FlagsStart
    /\ CorrectionStart
    /\ EditStart
    /\ KfStart
    /\ RotationStart
    /\ ExtStart
    /\ roots \in RootLists
    /\ FPS = DefaultFps

\* the importer keeps the estimate as animation.FPS
GetFramesPerSecond ==
    /\ pc = "start"
    /\ FPS' = get_frames_per_second(roots)
    /\ pc' = "done"
    /\ UNCHANGED <<scene_vars, bone_vars, roots, anim_vars, flag_vars, corr_vars, edit_vars,
                   kf_vars, rot_vars, ext_vars>>

FpsNext == GetFramesPerSecond

SpecFps == FpsInit /\ [][FpsNext]_vars

-----------------------------------------------------------------------------
(* Key times to frames; the keys a handler writes *)

\* the frame without the rounding: 1 + int(key.time * fps)
Frame_Truncated(time, fps) == 1 + IntTrunc(time[1] * fps, time[2])

\* the frame counted from 0: int(key.time * fps + 0.5)
Frame_FromZero(time, fps) == RoundedFrame(time, fps)

\* frame = 1 + int(key.time * fps + 0.5)  # time 0.0 is frame 1
Frame(time, fps) == 1 + RoundedFrame(time, fps)

\* one written key: the target and channel it goes to, the key time, the
\* frames-per-second value that was read for it and the frame it is put at
Key(target, data_path, ticks, fps) ==
    [target |-> target, data_path |-> data_path, time |-> TickTime(ticks),
     fps |-> fps, frame |-> Frame(TickTime(ticks), fps)]

\* the loop running over the key list from its end
Keys_Reversed(target, data_path, times, fps) ==
    [i \in 1..Len(times) |-> Key(target, data_path, times[Len(times) + 1 - i], fps)]

\* a loop over a key list, writing every key
Keys(target, data_path, times, fps) ==
    [i \in 1..Len(times) |-> Key(target, data_path, times[i], fps)]

Min(a, b) == IF a < b THEN a ELSE b

\* zip(a, b): as long as the shorter one
Zip(times, n) == SubSeq(times, 1, Min(Len(times), n))

XYZ_ROTATION_KEY == 4
LINEAR_KEY == 1

\* a NiKeyframeData: key times of scales, quaternion_keys, xyz_rotations[0]
\* and translations, the number of keys of xyz_rotations[1] and [2]
KeyframeData(scales, rotation_type, quaternion_keys, xkeys, ny, nz, translations) ==
    [scales |-> scales, rotation_type |-> rotation_type,
     quaternion_keys |-> quaternion_keys,
     xkeys |-> xkeys, num_ykeys |-> ny, num_zkeys |-> nz,
     translations |-> translations]

-----------------------------------------------------------------------------
(* get_extend_from_flags *)

\* Python's a & b on non-negative integers
RECURSIVE BitAnd(_, _)
BitAnd(a, b) ==
    IF a = 0 \/ b = 0 THEN 0
    ELSE (a % 2) * (b % 2) + 2 * BitAnd(a \div 2, b \div 2)

\* get_extend_from_flags with the mask 7 for 6
get_extend_from_flags_Mask7(flags) ==
    IF BitAnd(flags, 7) = 4 THEN [mode |-> "CONST", warned |-> FALSE]
    ELSE IF BitAnd(flags, 7) = 0 THEN [mode |-> "CYCLIC", warned |-> FALSE]
    ELSE [mode |-> "CONST", warned |-> TRUE]

get_extend_from_flags(flags) ==
    IF BitAnd(flags, 6) = 4 THEN [mode |-> "CONST", warned |-> FALSE]
    ELSE IF BitAnd(flags, 6) = 0 THEN [mode |-> "CYCLIC", warned |-> FALSE]
    ELSE [mode |-> "CONST", warned |-> TRUE]

-----------------------------------------------------------------------------
(* set_animation, import_text_keys, import_armature_animation *)

\* set_animation, lines 273-313: scale, then rotation, then location keys,
\* each at frame_set(frame) of animation.FPS
ObjectKeys(kfd) ==
    Keys("object", "scale", kfd.scales, FPS)
    \o (IF kfd.rotation_type = XYZ_ROTATION_KEY
        THEN Keys("object", "rotation_euler",
                  Zip(Zip(kfd.xkeys, kfd.num_ykeys), kfd.num_zkeys), FPS)
        ELSE Keys("object", "rotation_euler", kfd.quaternion_keys, FPS))
    \o Keys("object", "location", kfd.translations, FPS)

\* lines 648-793 with the translation loop moved before the scale loop
BoneKeyframeDataKeys_LocationFirst(kfd) ==
    LET scale == Keys("bone", "scale", kfd.scales, animation_fps)
        euler == Zip(Zip(kfd.xkeys, kfd.num_ykeys), kfd.num_zkeys)
        rotation == IF kfd.rotation_type = XYZ_ROTATION_KEY THEN <<>>
                    ELSE Keys("bone", "rotation_quaternion",
                              kfd.quaternion_keys, armature_fps)
        location == Keys("bone", "location", kfd.translations, armature_fps)
    IN IF kfd.rotation_type = XYZ_ROTATION_KEY /\ kfd.xkeys # <<>> /\ euler # <<>>
       THEN [keys |-> location \o scale, status |-> "AttributeError"]
       ELSE [keys |-> location \o scale \o rotation, status |-> "ok"]

\* import_armature_animation, lines 648-793: the keys of one bone with
\* NiKeyframeData. The Euler loop reads self.properties, which an
\* ArmatureAnimation does not have: its first iteration raises AttributeError.
BoneKeyframeDataKeys(kfd) ==
    LET scale == Keys("bone", "scale", kfd.scales, animation_fps)
        euler == Zip(Zip(kfd.xkeys, kfd.num_ykeys), kfd.num_zkeys)
        rotation == IF kfd.rotation_type = XYZ_ROTATION_KEY THEN <<>>
                    ELSE Keys("bone", "rotation_quaternion",
                              kfd.quaternion_keys, armature_fps)
        location == Keys("bone", "location", kfd.translations, armature_fps)
    IN IF kfd.rotation_type = XYZ_ROTATION_KEY /\ kfd.xkeys # <<>> /\ euler # <<>>
       THEN [keys |-> scale, status |-> "AttributeError"]
       ELSE [keys |-> scale \o rotation \o location, status |-> "ok"]

\* import_armature_animation, lines 553-645: the keys of one bone with a
\* B-spline interpolator (scales are ignored)
BoneBSplineKeys(times, num_rotations, num_translations) ==
    Keys("bone", "rotation_quaternion", Zip(times, num_rotations), animation_fps)
    \o Keys("bone", "location", Zip(times, num_translations), FPS)

\* rot_keys_dict[frame] and scale_keys_dict[frame] after the loop over the
\* keys: the last key written at the frame, 0 for a KeyError
KeyAtFrame(keys, frame) ==
    LET at == {i \in 1..Len(keys) : keys[i].frame = frame}
    IN IF at = {} THEN 0 ELSE CHOOSE i \in at : \A j \in at : j <= i

\* lines 742-768 and 599-618 with the dictionary never looked at
RotationSource_Identity(rotation, frame) == [from |-> "identity", key |-> 0]

\* lines 742-768 and 599-618: the rotation a location key is computed with:
\* of the dictionary, of the fcurves of the bone's group, or the identity
RotationSource(rotation, frame) ==
    IF rotation # <<>>
    THEN IF KeyAtFrame(rotation, frame) # 0
         THEN [from |-> "rot_keys_dict", key |-> KeyAtFrame(rotation, frame)]
         ELSE [from |-> "fcurves", key |-> 0]
    ELSE [from |-> "identity", key |-> 0]

\* lines 770-781 and 620-631: the scale a location key is computed with
ScaleSource(scale, frame) ==
    IF scale # <<>>
    THEN IF KeyAtFrame(scale, frame) # 0
         THEN [from |-> "scale_keys_dict", key |-> KeyAtFrame(scale, frame)]
         ELSE [from |-> "fcurves", key |-> 0]
    ELSE [from |-> "1.0", key |-> 0]

\* the translation loop: what every location key is computed with
LocationSources(scale, rotation, location) ==
    [i \in 1..Len(location) |->
        [frame |-> location[i].frame,
         rotation |-> RotationSource(rotation, location[i].frame),
         scale |-> ScaleSource(scale, location[i].frame)]]

\* lines 732-789, for the keys of BoneKeyframeDataKeys
BoneKeyframeDataSources(kfd) ==
    LET scale == Keys("bone", "scale", kfd.scales, animation_fps)
        rotation == IF kfd.rotation_type = XYZ_ROTATION_KEY THEN <<>>
                    ELSE Keys("bone", "rotation_quaternion",
                              kfd.quaternion_keys, armature_fps)
        location == Keys("bone", "location", kfd.translations, armature_fps)
    IN IF BoneKeyframeDataKeys(kfd).status = "ok"
       THEN LocationSources(scale, rotation, location) ELSE <<>>

\* lines 590-640, for the keys of BoneBSplineKeys: no scale key is written
BoneBSplineSources(times, num_rotations, num_translations) ==
    LocationSources(<<>>,
        Keys("bone", "rotation_quaternion", Zip(times, num_rotations), animation_fps),
        Keys("bone", "location", Zip(times, num_translations), FPS))

-----------------------------------------------------------------------------
(* SpecAnim: one call of a handler that writes keys, with the frame rates   *)
(* the animation and armature modules hold at that time                     *)

\* key times of the node animations, in ticks: 0.0, 0.05 and 0.09 s
AnimTicks == {0, 5, 9}
AnimKeyLists == SeqsUpTo(AnimTicks, MaxAnimKeys)
ScaleKeyLists == SeqsUpTo(AnimTicks, MaxScaleKeys)
EulerKeyLists == SeqsUpTo(AnimTicks, MaxEulerKeys)

\* quaternion keys and xyz rotations exclude each other
KeyframeDatas ==
    {KeyframeData(sc, LINEAR_KEY, q, <<>>, 0, 0, tr) :
        sc \in ScaleKeyLists, q \in AnimKeyLists, tr \in AnimKeyLists}
    \cup
    {KeyframeData(sc, XYZ_ROTATION_KEY, <<>>, x[1], x[2], x[3], tr) :
        sc \in ScaleKeyLists,
        x \in EulerKeyLists \X (0..MaxEulerKeys) \X (0..MaxEulerKeys),
        tr \in AnimKeyLists}

\* what get_frames_per_second can return
FpsValues == {20, 25, 30, 35}
\* values of the attributes fps of the animation and armature modules
AttrFpsValues == {25, 30}
AnimFlags == {0, 2, 4, 6}

AnimInit ==
    /\ NoScene
    /\ ImporterStart
    /\ roots = <<>>
    /\ FPS \in FpsValues
    /\ animation_fps \in AttrFpsValues
    /\ armature_fps \in AttrFpsValues
    /\ ImportStart
    /\ FlagsStart
    /\ CorrectionStart
    /\ EditStart
    /\ KfStart
    /\ RotationStart
    /\ ExtStart

\* import_text_keys, lines 143-170
ImportTextKeys ==
    /\ pc = "start"
    /\ \E txk \in BOOLEAN : \E text_keys \in AnimKeyLists :
          IF ~txk
          THEN UNCHANGED <<keyframes, scene>>
          ELSE /\ keyframes' = Keys("text", "Anim", text_keys, FPS)
               /\ scene' = [scene EXCEPT
                    !.frame_start = 1,
                    !.frame_end = IF text_keys = <<>> THEN 1
                                  ELSE Frame(TickTime(text_keys[Len(text_keys)]), FPS)]
    /\ pc' = "done"
    /\ UNCHANGED <<scene_vars, bone_vars, fps_vars, animation_fps, armature_fps,
                   bone_idx, kfc, extrapolation, flag_vars, corr_vars, edit_vars,
                   kf_vars, rot_vars, ext_vars>>

\* set_animation, lines 239-315: nothing without a controller, with a B-spline
\* interpolator or without keyframe data
SetAnimation ==
    /\ pc = "start"
    /\ \E has_kfd \in BOOLEAN : \E kfd \in KeyframeDatas :
          IF ~has_kfd
          THEN UNCHANGED <<keyframes, scene>>
          ELSE /\ keyframes' = ObjectKeys(kfd)
               /\ scene' = [scene EXCEPT !.frame_current = 1]
    /\ pc' = "done"
    /\ UNCHANGED <<scene_vars, bone_vars, fps_vars, animation_fps, armature_fps,
                   bone_idx, kfc, extrapolation, flag_vars, corr_vars, edit_vars,
                   kf_vars, rot_vars, ext_vars>>

\* process_geometry_animation, lines 813-887: with morphs it stops at line 829
\* on the name Blender, which the module does not define; without, at line 887
\* on b_ipo, which was never assigned. No morph key is written either way.
ProcessGeometryAnimation ==
    /\ pc = "start"
    /\ \E morph_ctrl \in BOOLEAN : \E num_morphs \in 0..MaxMorphs :
          pc' = IF morph_ctrl /\ num_morphs > 0
                THEN "NameError" ELSE "UnboundLocalError"
    /\ UNCHANGED <<scene_vars, bone_vars, fps_vars, anim_vars, flag_vars, corr_vars, edit_vars,
                   kf_vars, rot_vars, ext_vars>>

\* import_armature_animation, lines 478-483
ImportArmatureAnimationStart ==
    /\ pc = "start"
    /\ pc' = "pose_bones"
    /\ UNCHANGED <<scene_vars, bone_vars, fps_vars, anim_vars, flag_vars, corr_vars, edit_vars,
                   kf_vars, rot_vars, ext_vars>>

\* lines 484-550: the next pose bone, its controller, interpolator and data;
\* its keys go to the group of its own name
NextPoseBone ==
    /\ pc = "pose_bones"
    /\ bone_idx < NumBones
    /\ bone_idx' = bone_idx + 1
    /\ keyframes' = <<>>
    /\ extrapolation' = ""
    /\ \/ /\ kfc' = NoController
          /\ pc' = "extend"
       \/ \E kind \in {"NiBSplineInterpolator", "NiKeyframeData", "None"} :
          \E flags \in AnimFlags :
             /\ kfc' = [present |-> TRUE, kind |-> kind, flags |-> flags]
             /\ pc' = IF kind = "None" THEN "extend" ELSE kind
    /\ kf_data' = NoData
    /\ loc_sources' = <<>>
    /\ UNCHANGED <<scene_vars, bone_vars, fps_vars, animation_fps, armature_fps,
                   scene, flag_vars, corr_vars, edit_vars,
                   kf_block, n_ctrl, DICT_BONE_PRIORITIES, rot_vars,
                   name_vars, mat_vars, kf_warnings, cache_vars>>

\* lines 553-645
ImportBSplineKeys ==
    /\ pc = "NiBSplineInterpolator"
    /\ \E times \in AnimKeyLists :
       \E num_rotations \in 0..MaxAnimKeys : \E num_translations \in 0..MaxAnimKeys :
          /\ kf_data' = [kind |-> "NiBSplineInterpolator", kfd |-> <<>>,
                          times |-> times, num_rotations |-> num_rotations,
                          num_translations |-> num_translations]
          /\ keyframes' = BoneBSplineKeys(times, num_rotations, num_translations)
          /\ loc_sources' = BoneBSplineSources(times, num_rotations, num_translations)
    /\ pc' = "extend"
    /\ UNCHANGED <<scene_vars, bone_vars, fps_vars, animation_fps, armature_fps,
                   bone_idx, kfc, extrapolation, scene, flag_vars, corr_vars, edit_vars,
                   kf_block, n_ctrl, DICT_BONE_PRIORITIES, rot_vars,
                   name_vars, mat_vars, kf_warnings, cache_vars>>

\* lines 648-793
ImportKeyframeDataKeys ==
    /\ pc = "NiKeyframeData"
    /\ \E kfd \in KeyframeDatas :
          LET bone == BoneKeyframeDataKeys(kfd)
          IN /\ kf_data' = [kind |-> "NiKeyframeData", kfd |-> kfd,
                             times |-> <<>>, num_rotations |-> 0,
                             num_translations |-> 0]
             /\ keyframes' = bone.keys
             /\ loc_sources' = BoneKeyframeDataSources(kfd)
             /\ pc' = IF bone.status = "ok" THEN "extend" ELSE bone.status
    /\ UNCHANGED <<scene_vars, bone_vars, fps_vars, animation_fps, armature_fps,
                   bone_idx, kfc, extrapolation, scene, flag_vars, corr_vars, edit_vars,
                   kf_block, n_ctrl, DICT_BONE_PRIORITIES, rot_vars,
                   name_vars, mat_vars, kf_warnings, cache_vars>>

\* lines 795-808: the extend mode of the fcurves of the bone's group, if the
\* bone has a controller and the group exists
SetExtend ==
    /\ pc = "extend"
    /\ IF kfc.present /\ keyframes # <<>>
       THEN /\ extend' = get_extend_from_flags(kfc.flags)
            /\ n_flags' = kfc.flags
            /\ extrapolation' = IF get_extend_from_flags(kfc.flags).mode = "CYCLIC"
                                THEN "CYCLES" ELSE "CONSTANT"
       ELSE UNCHANGED <<extend, n_flags, extrapolation>>
    /\ pc' = "pose_bones"
    /\ UNCHANGED <<scene_vars, bone_vars, fps_vars, animation_fps, armature_fps,
                   keyframes, bone_idx, kfc, scene, corr_vars, edit_vars,
                   kf_vars, rot_vars, ext_vars>>

\* the loop over the pose bones is over
ImportArmatureAnimationEnd ==
    /\ pc = "pose_bones"
    /\ bone_idx = NumBones
    /\ pc' = "done"
    /\ UNCHANGED <<scene_vars, bone_vars, fps_vars, anim_vars, flag_vars, corr_vars, edit_vars,
                   kf_vars, rot_vars, ext_vars>>

AnimNext ==
    \/ ImportTextKeys
    \/ SetAnimation
    \/ ProcessGeometryAnimation
    \/ ImportArmatureAnimationStart
    \/ NextPoseBone
    \/ ImportBSplineKeys
    \/ ImportKeyframeDataKeys
    \/ SetExtend
    \/ ImportArmatureAnimationEnd

SpecAnim == AnimInit /\ [][AnimNext]_vars

-----------------------------------------------------------------------------
(* SpecFlags: get_extend_from_flags on every flags value *)

FlagsInit ==
    /\ NoScene
    /\ ImporterStart
    /\ EstimatorStart
    /\ AnimationStart
    /\ CorrectionStart
    /\ EditStart
    /\ KfStart
    /\ RotationStart
    /\ ExtStart
    /\ n_flags \in 0..MaxFlags
    /\ extend = NoExtend

GetExtendFromFlags ==
    /\ pc = "start"
    /\ extend' = get_extend_from_flags(n_flags)
    /\ pc' = "done"
    /\ UNCHANGED <<scene_vars, bone_vars, fps_vars, anim_vars, n_flags, corr_vars, edit_vars,
                   kf_vars, rot_vars, ext_vars>>

FlagsNext == GetExtendFromFlags

SpecFlags == FlagsInit /\ [][FlagsNext]_vars

-----------------------------------------------------------------------------
(* find_correction_matrix; a coordinate is a number of units of 1/UnitsPerOne *)

UnitsPerOne == 2 * 200

\* correction matrices list, the order is +X, +Y, +Z, -X, -Y, -Z
BONE_CORRECTION_MATRICES ==
    << <<<<0, -1, 0>>, <<1, 0, 0>>, <<0, 0, 1>>>>,
       <<<<1, 0, 0>>, <<0, 1, 0>>, <<0, 0, 1>>>>,
       <<<<1, 0, 0>>, <<0, 0, 1>>, <<0, -1, 0>>>>,
       <<<<0, 1, 0>>, <<-1, 0, 0>>, <<0, 0, 1>>>>,
       <<<<-1, 0, 0>>, <<0, -1, 0>>, <<0, 0, 1>>>>,
       <<<<1, 0, 0>>, <<0, 0, -1>>, <<0, 1, 0>>>> >>

\* IDENTITY44.to_3x3()
IDENTITY33 == <<<<1, 0, 0>>, <<0, 1, 0>>, <<0, 0, 1>>>>

\* sum(cm[i][3] for cm in child_local_matrices), for the three axes
RECURSIVE SumOffsets(_)
SumOffsets(offsets) ==
    IF offsets = <<>> THEN <<0, 0, 0>>
    ELSE LET h == Head(offsets)
             t == SumOffsets(Tail(offsets))
         IN <<h[1] + t[1], h[2] + t[2], h[3] + t[3]>>

\* int(c * 200)
Int200(c) == IntTrunc(c * 200, UnitsPerOne)

\* list.index(max(list)), counted from 0: the first position of the maximum
IndexOfMax(list) ==
    CHOOSE i \in 0..(Len(list) - 1) :
        /\ \A j \in 1..Len(list) : list[j] <= list[i + 1]
        /\ \A j \in 1..i : list[j] < list[i + 1]

find_correction_matrix(n_block) ==
    IF n_block.realign = 2 /\ n_block.is_bone
    THEN LET sum == IF Len(n_block.children) > 0
                    THEN SumOffsets(n_block.children) ELSE n_block.row3
             sum_x == sum[1]
             sum_y == sum[2]
             sum_z == sum[3]
             list_xyz == <<Int200(sum_x), Int200(sum_y), Int200(sum_z),
                           Int200(-sum_x), Int200(-sum_y), Int200(-sum_z)>>
             idx_correction == IndexOfMax(list_xyz)
             alignment_offset ==
                IF idx_correction \in {0, 3} /\ Abs(sum_x) > 0
                THEN <<Abs(sum_y) + Abs(sum_z), Abs(sum_x)>>
                ELSE IF idx_correction \in {1, 4} /\ Abs(sum_y) > 0
                THEN <<Abs(sum_z) + Abs(sum_x), Abs(sum_y)>>
                ELSE IF Abs(sum_z) > 0
                THEN <<Abs(sum_x) + Abs(sum_y), Abs(sum_z)>>
                ELSE <<0, 1>>
         IN IF RatLess(alignment_offset, <<1, 4>>)
            THEN BONE_CORRECTION_MATRICES[idx_correction + 1]
            ELSE IDENTITY33
    ELSE IDENTITY33

-----------------------------------------------------------------------------
(* SpecCorr: one call of find_correction_matrix *)

\* coordinates of the offsets, in units: 0, 0.0025 and 0.02 either way
Coords == {-8, -1, 0, 1, 8}
Offsets == Coords \X Coords \X Coords

CorrInit ==
    /\ NoScene
    /\ ImporterStart
    /\ EstimatorStart
    /\ AnimationStart
    /\ FlagsStart
    /\ EditStart
    /\ KfStart
    /\ RotationStart
    /\ ExtStart
    /\ m_correction = NoMatrix
    /\ \/ \E children \in SeqsUpTo(Offsets, MaxChildBones) \ {<<>>} :
             corr_block = [realign |-> 2, is_bone |-> TRUE,
                           row3 |-> <<0, 0, 0>>, children |-> children]
       \/ \E row3 \in Offsets :
             corr_block = [realign |-> 2, is_bone |-> TRUE,
                           row3 |-> row3, children |-> <<>>]
       \/ \E realign \in 0..2 : \E is_bone \in BOOLEAN : \E child \in Offsets :
             /\ ~(realign = 2 /\ is_bone)
             /\ corr_block = [realign |-> realign, is_bone |-> is_bone,
                              row3 |-> <<0, 0, 0>>, children |-> <<child>>]

FindCorrectionMatrix ==
    /\ pc = "start"
    /\ m_correction' = find_correction_matrix(corr_block)
    /\ pc' = "done"
    /\ UNCHANGED <<scene_vars, bone_vars, fps_vars, anim_vars, flag_vars, corr_block,
                 edit_vars,
                   kf_vars, rot_vars, ext_vars>>

CorrNext == FindCorrectionMatrix

SpecCorr == CorrInit /\ [][CorrNext]_vars

-----------------------------------------------------------------------------
(* import_armature / import_bone: heads and tails of the edit bones *)

\* A position coordinate is a number of units of 1/PosUnits.
PosUnits == 2 * 1000

\* nub_length of import_bone
nub_length == 5

VSub(a, b) == <<a[1] - b[1], a[2] - b[2], a[3] - b[3]>>
VAdd(a, b) == <<a[1] + b[1], a[2] + b[2], a[3] + b[3]>>

\* dx + dy + dz
ComponentSum(d) == d[1] + d[2] + d[3]

\* the largest r with r * r <= n
RECURSIVE ISqrtIn(_, _, _)
ISqrtIn(n, lo, hi) ==
    IF lo >= hi THEN lo
    ELSE LET mid == (lo + hi + 1) \div 2
         IN IF mid * mid <= n THEN ISqrtIn(n, mid, hi) ELSE ISqrtIn(n, lo, mid - 1)

ISqrt(n) == ISqrtIn(n, 0, 46340)

\* the length of d, when it is a whole number of units
VLength(d) == ISqrt(d[1] * d[1] + d[2] * d[2] + d[3] * d[3])

\* direction = Vector(d); direction.normalize(); direction * length
\* (normalize leaves the zero vector as it is)
NormalizedTimes(d, length) ==
    LET r == VLength(d)
    IN IF r = 0 THEN <<0, 0, 0>>
       ELSE <<(d[1] * length) \div r, (d[2] * length) \div r, (d[3] * length) \div r>>

\* NormalizedTimes(d, length) is the exact value: the length of d is a whole
\* number and the divisions leave no remainder
NormalizedExact(d, length) ==
    LET r == VLength(d)
    IN /\ r * r = d[1] * d[1] + d[2] * d[2] + d[3] * d[3]
       /\ r # 0 => \A i \in 1..3 : (d[i] * length) % r = 0

\* a threshold test that nothing passes
EpsilonTest_Never(s, epsilon) == FALSE

\* abs(s) * 200 < NifOp.props.epsilon, for s in units and epsilon = num/den
EpsilonTest(s, epsilon) ==
    LET g == GCD(200 * epsilon[2], PosUnits * epsilon[1])
    IN Abs(s) * ((200 * epsilon[2]) \div g) < (PosUnits * epsilon[1]) \div g

\* block.children of a block of the armature tree (0: the armature root)
ArmChildren(arm, b) == SortedSeq({c \in ArmBlocks : arm.parent[c] = b})

\* every child, bone or not
n_child_bones_AllChildren(arm, b) == ArmChildren(arm, b)

\* [child for child in n_block.children if self.is_bone(child)]
n_child_bones(arm, b) ==
    SortedSeq({c \in ArmBlocks : arm.parent[c] = b /\ arm.is_bone[c]})

\* sum(child_matrix[k][3] for child_matrix in child_matrices), k = 0, 1, 2
RECURSIVE SumPositions(_, _)
SumPositions(arm, list) ==
    IF list = <<>> THEN <<0, 0, 0>>
    ELSE VAdd(arm.pos[Head(list)], SumPositions(arm, Tail(list)))

\* a nub of no length
NubLength_Zero(arm) == 0

\* nub_length * scale, in units
NubLength(arm) == (nub_length * arm.scale[1] * PosUnits) \div arm.scale[2]

\* is_bone(n_block._parent): the armature root is not one of its own bones
ParentIsBone(arm, b) == arm.parent[b] # 0 /\ arm.is_bone[arm.parent[b]]

\* import_bone up to the assignment of b_bone.head and b_bone.tail: the edit
\* bone of block b, given the edit bones created so far; exact tells whether
\* every division and normalisation came out without a remainder
import_bone(arm, eb, b) ==
    LET head == arm.pos[b]
        kids == n_child_bones(arm, b)
        n == Len(kids)
        sum == SumPositions(arm, kids)
        \* tail: average of children location
        average == IF n > 0
                   THEN <<sum[1] \div n, sum[2] \div n, sum[3] \div n>>
                   ELSE head
        is_zero_length ==
            IF n > 0
            THEN EpsilonTest(ComponentSum(VSub(head, average)), arm.epsilon)
            ELSE TRUE
        fixed == arm.realign = 2 \/ ~ParentIsBone(arm, b)
        parent_tail == eb[arm.parent[b]].tail
        parent_head == eb[arm.parent[b]].head
        offset == VSub(head, parent_tail)
        d == IF EpsilonTest(ComponentSum(offset), arm.epsilon)
             THEN VSub(parent_tail, parent_head)
             ELSE offset
        tail == IF ~is_zero_length THEN average
                ELSE IF fixed
                THEN <<head[1] + NubLength(arm), average[2], average[3]>>
                ELSE VAdd(head, NormalizedTimes(d, NubLength(arm)))
    IN [present |-> TRUE, head |-> head, tail |-> tail,
        is_zero_length |-> is_zero_length,
        exact |-> /\ n > 0 => \A i \in 1..3 : sum[i] % n = 0
                  /\ (is_zero_length /\ ~fixed) =>
                        NormalizedExact(d, NubLength(arm))]

\* the calls of import_bone in the order they are made: a bone, then its bone
\* children depth first (todo: the bones whose call is still to come)
RECURSIVE ImportBones(_, _, _)
ImportBones(arm, eb, todo) ==
    IF todo = <<>> THEN eb
    ELSE LET b == Head(todo)
             b_bone == import_bone(arm, eb, b)
         IN ImportBones(arm,
                [eb EXCEPT ![b] = [present |-> TRUE, head |-> b_bone.head,
                                   tail |-> b_bone.tail,
                                   is_zero_length |-> b_bone.is_zero_length]],
                n_child_bones(arm, b) \o Tail(todo))

\* the exact flags of the same calls
RECURSIVE ImportExact(_, _, _)
ImportExact(arm, eb, todo) ==
    IF todo = <<>> THEN TRUE
    ELSE LET b == Head(todo)
             b_bone == import_bone(arm, eb, b)
         IN /\ b_bone.exact
            /\ ImportExact(arm,
                   [eb EXCEPT ![b] = [present |-> TRUE, head |-> b_bone.head,
                                      tail |-> b_bone.tail,
                                      is_zero_length |-> b_bone.is_zero_length]],
                   n_child_bones(arm, b) \o Tail(todo))

\* import_armature: import_bone for every bone child of the armature root
import_armature(arm, eb) == ImportBones(arm, eb, n_child_bones(arm, 0))

-----------------------------------------------------------------------------
(* SpecBone: one call of import_armature *)

\* positions of the blocks in armature space, in units
Positions ==
    {<<0, 0, 0>>, <<2000, 0, 0>>, <<6000, 0, 0>>, <<0, 1000, 0>>, <<0, 2000, 0>>,
     <<0, 2000, 2>>, <<0, 2000, -2>>, <<0, 2000, -2000>>}

\* NifOp.props.epsilon: 0.0005 and 0.25
Epsilons == {<<1, 2000>>, <<1, 4>>}

\* NifOp.props.scale_correction_import: 1.0 and 0.1
Scales == {<<1, 1>>, <<1, 10>>}

\* a parent comes before its children in the file
ArmParents == {p \in [ArmBlocks -> 0..NumArmBlocks] : \A b \in ArmBlocks : p[b] < b}

BoneInit ==
    /\ NoScene
    /\ ImporterStart
    /\ EstimatorStart
    /\ AnimationStart
    /\ FlagsStart
    /\ CorrectionStart
    /\ KfStart
    /\ RotationStart
    /\ ExtStart
    /\ edit_bones = [b \in ArmBlocks |-> NoEditBone]
    /\ \E parent \in ArmParents : \E is_bone \in [ArmBlocks -> BOOLEAN] :
       \E pos \in [ArmBlocks -> Positions] : \E realign \in 0..2 :
       \E epsilon \in Epsilons : \E scale \in Scales :
          /\ n_armature = [parent |-> parent, is_bone |-> is_bone, pos |-> pos,
                           realign |-> realign, epsilon |-> epsilon,
                           scale |-> scale]
          /\ ImportExact(n_armature, edit_bones, n_child_bones(n_armature, 0))

ImportArmature ==
    /\ pc = "start"
    /\ edit_bones' = import_armature(n_armature, edit_bones)
    /\ pc' = "done"
    /\ UNCHANGED <<scene_vars, bone_vars, fps_vars, anim_vars, flag_vars, corr_vars,
                   n_armature, kf_vars, rot_vars, ext_vars>>

BoneNext == ImportArmature

SpecBone == BoneInit /\ [][BoneNext]_vars

-----------------------------------------------------------------------------
(* SpecKf: a node with a keyframe controller, a kf file merged into it by   *)
(* import_kf_root or not, then the animation import of the node, as the     *)
(* only pose bone of an armature or as an object                            *)

\* the data of a B-spline interpolator: the sample times and the number of
\* rotation and translation samples its getters give
BSplineData(times, num_rotations, num_translations) ==
    [times |-> times, num_rotations |-> num_rotations,
     num_translations |-> num_translations]

\* a B-spline interpolator without basis and spline data gives no samples
NoBSplineData == BSplineData(<<>>, 0, 0)

\* the translation key made whatever the interpolator's translation is
DummyTransformData_AlwaysTranslation(kfi) ==
    KeyframeData(<<>>, LINEAR_KEY, <<0>>, <<>>, 0, 0, <<0>>)
    @@ [quaternion_values |-> <<kfi.rotation>>,
        translation_values |-> <<kfi.translation>>]

\* lines 107-129: the NiTransformData made for an interpolator without data,
\* one quaternion key at 0.0 and, unless the interpolator's translation is
\* the invalid marker, one translation key at 0.0
DummyTransformData(kfi) ==
    KeyframeData(<<>>, LINEAR_KEY, <<0>>, <<>>, 0, 0,
                 IF kfi.translation.x < -1000000 THEN <<>> ELSE <<0>>)
    @@ [quaternion_values |->
            <<[w |-> kfi.rotation.w, x |-> kfi.rotation.x,
               y |-> kfi.rotation.y, z |-> kfi.rotation.z]>>,
        translation_values |->
            IF kfi.translation.x < -1000000 THEN <<>>
            ELSE <<[x |-> kfi.translation.x, y |-> kfi.translation.y,
                    z |-> kfi.translation.z]>>]

\* lines 121-123: NifLog.warn for the invalid translation
DummyDataWarnings(kfi) ==
    IF kfi.type = "NiTransformInterpolator" /\ ~kfi.has_data
       /\ kfi.translation.x < -1000000
    THEN 1 ELSE 0

\* lines 88-96 alone: the interpolator is attached as it is
import_kf_root_NoDummyData(controller, controlledblock) ==
    [controller EXCEPT !.present = TRUE,
                       !.interpolator = controlledblock.interpolator]

\* import_kf_root, lines 88-130: the controller of the node (a new one if it
\* has none) gets the interpolator of the controlled block
import_kf_root(controller, controlledblock) ==
    LET kfi == controlledblock.interpolator
    IN [controller EXCEPT
          !.present = TRUE,
          !.interpolator =
              IF kfi.type = "NiTransformInterpolator" /\ ~kfi.has_data
              THEN [kfi EXCEPT !.has_data = TRUE, !.data = DummyTransformData(kfi)]
              ELSE kfi]

\* import_armature_animation, lines 539-557: the data read for the pose bone
BoneData(controller) ==
    LET kfi == controller.interpolator
        KeyData(has_data, data) ==
            IF has_data
            THEN [kind |-> "NiKeyframeData", kfd |-> data, times |-> <<>>,
                  num_rotations |-> 0, num_translations |-> 0]
            ELSE NoData
        spline == IF kfi.has_data THEN kfi.data ELSE NoBSplineData
    IN IF ~controller.present THEN NoData
       ELSE IF kfi.type = "NiTransformInterpolator"
            THEN KeyData(kfi.has_data, kfi.data)
       ELSE IF kfi.type = "NiBSplineInterpolator"
            THEN [kind |-> "NiBSplineInterpolator", kfd |-> <<>>,
                  times |-> spline.times, num_rotations |-> spline.num_rotations,
                  num_translations |-> spline.num_translations]
       ELSE KeyData(controller.has_data, controller.data)

\* import_armature_animation, lines 553-793: the keys written for that data
BoneKeys(data) ==
    IF data.kind = "NiKeyframeData" THEN BoneKeyframeDataKeys(data.kfd)
    ELSE IF data.kind = "NiBSplineInterpolator"
         THEN [keys |-> BoneBSplineKeys(data.times, data.num_rotations,
                                        data.num_translations),
               status |-> "ok"]
    ELSE [keys |-> <<>>, status |-> "ok"]

\* set_animation, lines 241-256: the keyframe data, <<>> for none
ObjectData(controller) ==
    LET kfi == controller.interpolator
    IN IF ~controller.present THEN <<>>
       ELSE IF kfi.type # ""
            THEN IF kfi.type = "NiBSplineInterpolator" \/ ~kfi.has_data
                 THEN <<>> ELSE kfi.data
       ELSE IF controller.has_data THEN controller.data ELSE <<>>

KfKeyLists == {<<>>, <<5>>, <<0, 9>>}

\* keyframe data blocks with quaternion keys
KfKeyframeDatas ==
    {KeyframeData(<<>>, LINEAR_KEY, q, <<>>, 0, 0, tr) :
        q \in KfKeyLists, tr \in {<<>>, <<5>>}}

KfBSplineDatas == {BSplineData(<<0, 5>>, 2, 0), BSplineData(<<5>>, 1, 1)}

\* rotations and translations of interpolators; the last two translations
\* lie at and below the limit of line 121
KfRotations == {NoRotation, [w |-> 0, x |-> 1, y |-> 0, z |-> 0],
                [w |-> 1, x |-> 2, y |-> 3, z |-> 4]}
KfTranslations == {NoTranslation, [x |-> 1, y |-> 2, z |-> 3],
                   [x |-> -1000000, y |-> 0, z |-> 0],
                   [x |-> -1000001, y |-> 2, z |-> 3]}

Interpolators ==
    {[type |-> "NiTransformInterpolator", has_data |-> FALSE, data |-> <<>>,
      nan |-> t.x < -1000000, rotation |-> r, translation |-> t] :
        r \in KfRotations, t \in KfTranslations}
    \cup {[type |-> "NiTransformInterpolator", has_data |-> TRUE, data |-> d,
           nan |-> FALSE, rotation |-> NoRotation, translation |-> NoTranslation] :
            d \in KfKeyframeDatas}
    \cup {[type |-> "NiBSplineInterpolator", has_data |-> FALSE, data |-> <<>>,
           nan |-> FALSE, rotation |-> NoRotation, translation |-> NoTranslation]}
    \cup {[type |-> "NiBSplineInterpolator", has_data |-> TRUE, data |-> d,
           nan |-> FALSE, rotation |-> NoRotation, translation |-> NoTranslation] :
            d \in KfBSplineDatas}

KfPriorities == {26, 30}
KfFlags == {0, 4}

\* the node's controller before the merge: none, old style with data on the
\* controller, or with an interpolator
KeyframeControllers ==
    {NoKeyframeController}
    \cup {[present |-> TRUE, interpolator |-> NoInterpolator, has_data |-> TRUE,
           data |-> d, flags |-> f] : d \in KfKeyframeDatas, f \in KfFlags}
    \cup {[present |-> TRUE, interpolator |-> i, has_data |-> FALSE,
           data |-> <<>>, flags |-> f] : i \in Interpolators, f \in KfFlags}

\* the controlled block of the kf file for the node, as the file has it
ControlledBlocks ==
    {[present |-> TRUE, interpolator |-> i, priority |-> p] :
        i \in Interpolators \cup {NoInterpolator}, p \in KfPriorities}

KfInit ==
    /\ NoScene
    /\ ImporterStart
    /\ roots = <<>>
    /\ FPS \in AttrFpsValues
    /\ animation_fps = DefaultFps
    /\ armature_fps = DefaultFps
    /\ ImportStart
    /\ FlagsStart
    /\ CorrectionStart
    /\ EditStart
    /\ kf_data = NoData
    /\ \/ /\ kf_block = NoControlledBlock
          /\ n_ctrl \in KeyframeControllers
       \/ /\ kf_block \in ControlledBlocks
          /\ n_ctrl \in {c \in KeyframeControllers : c.interpolator.type = ""}
    /\ DICT_BONE_PRIORITIES = <<>>
    /\ RotationStart
    /\ ExtStart

\* import_kf_root, lines 59-136, for a kf file with one controlled block, of
\* a NiTransformController, that names a node of the nif tree
ImportKfRoot ==
    /\ pc = "start"
    /\ kf_block.present
    /\ \E is_sequence \in BOOLEAN : \E txk \in BOOLEAN : \E text_keys \in KfKeyLists :
          IF ~is_sequence
          THEN /\ pc' = "NifError"
               /\ UNCHANGED <<keyframes, scene, n_ctrl, DICT_BONE_PRIORITIES,
                              kf_warnings>>
          ELSE /\ IF ~txk
                  THEN UNCHANGED <<keyframes, scene>>
                  ELSE /\ keyframes' = Keys("text", "Anim", text_keys, FPS)
                       /\ scene' = [scene EXCEPT
                            !.frame_start = 1,
                            !.frame_end = IF text_keys = <<>> THEN 1
                                          ELSE Frame(TickTime(text_keys[Len(text_keys)]), FPS)]
               /\ n_ctrl' = import_kf_root(n_ctrl, kf_block)
               /\ kf_warnings' = kf_warnings + DummyDataWarnings(kf_block.interpolator)
               /\ DICT_BONE_PRIORITIES' = <<kf_block.priority>>
               /\ pc' = "merged"
    /\ UNCHANGED <<scene_vars, bone_vars, fps_vars, animation_fps, armature_fps,
                   bone_idx, kfc, extrapolation, flag_vars, corr_vars, edit_vars,
                   kf_data, kf_block, rot_vars, name_vars, mat_vars, loc_sources,
                   cache_vars>>

\* the animation is imported after the merge, or without one
ReadyForImport == pc = (IF kf_block.present THEN "merged" ELSE "start")

\* import_armature_animation, lines 472-808, for an armature whose only pose
\* bone is the node
ImportArmatureAnimation ==
    /\ ReadyForImport
    /\ LET data == BoneData(n_ctrl)
           bone == BoneKeys(data)
       IN /\ bone_idx' = 1
          /\ kfc' = [present |-> n_ctrl.present, kind |-> data.kind,
                     flags |-> n_ctrl.flags]
          /\ kf_data' = data
          /\ keyframes' = keyframes \o bone.keys
          /\ loc_sources' =
                IF data.kind = "NiKeyframeData" THEN BoneKeyframeDataSources(data.kfd)
                ELSE IF data.kind = "NiBSplineInterpolator"
                THEN BoneBSplineSources(data.times, data.num_rotations,
                                        data.num_translations)
                ELSE <<>>
          /\ IF bone.status = "ok" /\ n_ctrl.present /\ bone.keys # <<>>
             THEN /\ extend' = get_extend_from_flags(n_ctrl.flags)
                  /\ n_flags' = n_ctrl.flags
                  /\ extrapolation' =
                        IF get_extend_from_flags(n_ctrl.flags).mode = "CYCLIC"
                        THEN "CYCLES" ELSE "CONSTANT"
             ELSE UNCHANGED <<extend, n_flags, extrapolation>>
          /\ pc' = IF bone.status = "ok" THEN "done" ELSE bone.status
    /\ UNCHANGED <<scene_vars, bone_vars, fps_vars, animation_fps, armature_fps,
                   scene, corr_vars, edit_vars, kf_block, n_ctrl,
                   DICT_BONE_PRIORITIES, rot_vars, name_vars, mat_vars,
                   kf_warnings, cache_vars>>

\* set_animation, lines 239-315, on the node
SetNodeAnimation ==
    /\ ReadyForImport
    /\ LET kfd == ObjectData(n_ctrl)
       IN IF kfd = <<>>
          THEN UNCHANGED <<keyframes, scene>>
          ELSE /\ keyframes' = keyframes \o ObjectKeys(kfd)
               /\ scene' = [scene EXCEPT !.frame_current = 1]
    /\ pc' = "done"
    /\ UNCHANGED <<scene_vars, bone_vars, fps_vars, animation_fps, armature_fps,
                   bone_idx, kfc, extrapolation, flag_vars, corr_vars, edit_vars,
                   kf_vars, rot_vars, ext_vars>>

KfNext ==
    \/ ImportKfRoot
    \/ ImportArmatureAnimation
    \/ SetNodeAnimation

SpecKf == KfInit /\ [][KfNext]_vars

-----------------------------------------------------------------------------
(* SpecRot: one rotation key of a bone, in one of the three encodings, and  *)
(* the rotation import_armature_animation gives the pose bone for it.       *)
(* Rotations are 3x3 matrices; a unit quaternion stands for its rotation.   *)

\* a.cross(b) of two rotations: the product, b applied first
cross(a, b) ==
    LET Entry(i, j) == a[i][1] * b[1][j] + a[i][2] * b[2][j] + a[i][3] * b[3][j]
        Row(i) == <<Entry(i, 1), Entry(i, 2), Entry(i, 3)>>
    IN <<Row(1), Row(2), Row(3)>>

\* invert() of a rotation matrix: its transpose
Inverted(m) ==
    <<<<m[1][1], m[2][1], m[3][1]>>,
      <<m[1][2], m[2][2], m[3][2]>>,
      <<m[1][3], m[2][3], m[3][3]>>>>

Determinant(m) ==
    m[1][1] * (m[2][2] * m[3][3] - m[2][3] * m[3][2])
    - m[1][2] * (m[2][1] * m[3][3] - m[2][3] * m[3][1])
    + m[1][3] * (m[2][1] * m[3][2] - m[2][2] * m[3][1])

\* the rotations by multiples of 90 degrees about the axes, and their
\* products: the 24 rotations that map the axes to axes
AxisRotations ==
    LET Matrix(p, s) ==
            [i \in 1..3 |-> [j \in 1..3 |-> IF p[i] = j THEN s[i] ELSE 0]]
        Tuple(m) == <<<<m[1][1], m[1][2], m[1][3]>>,
                      <<m[2][1], m[2][2], m[2][3]>>,
                      <<m[3][1], m[3][2], m[3][3]>>>>
        all == {Tuple(Matrix(p, s)) :
                    p \in Permutations(1..3), s \in [1..3 -> {-1, 1}]}
    IN {m \in all : Determinant(m) = 1}

RotationEncodings == {"euler", "quaternion", "bspline"}

\* lines 579-581: the rotation of a B-spline sample
bspline_rotation(key) ==
    LET niBone_bind_quat_inv == Inverted(key.bind)
        extra_matrix_quat == key.extra
        extra_matrix_quat_inv == Inverted(key.extra)
        quat == key.total
        quatVal == cross(niBone_bind_quat_inv, quat)
        rot == cross(extra_matrix_quat_inv, quatVal)
    IN cross(rot, extra_matrix_quat)

\* lines 717-719: the rotation of a quaternion key
quaternion_rotation(key) ==
    LET niBone_bind_quat_inv == Inverted(key.bind)
        extra_matrix_quat == key.extra
        extra_matrix_quat_inv == Inverted(key.extra)
        quat == key.total
        quatVal == cross(niBone_bind_quat_inv, quat)
        rot == cross(extra_matrix_quat_inv, quatVal)
    IN cross(rot, extra_matrix_quat)

RotInit ==
    /\ NoScene
    /\ ImporterStart
    /\ EstimatorStart
    /\ AnimationStart
    /\ FlagsStart
    /\ CorrectionStart
    /\ EditStart
    /\ KfStart
    /\ rot_key \in [encoding : RotationEncodings, total : AxisRotations,
                    bind : AxisRotations, extra : AxisRotations]
    /\ rot_channel = NoMatrix
    /\ ExtStart

\* lines 574-584: a B-spline sample
ImportBSplineRotation ==
    /\ pc = "start"
    /\ rot_key.encoding = "bspline"
    /\ rot_channel' = bspline_rotation(rot_key)
    /\ pc' = "done"
    /\ UNCHANGED <<scene_vars, bone_vars, fps_vars, anim_vars, flag_vars,
                   corr_vars, edit_vars, kf_vars, rot_key, ext_vars>>

\* lines 682-701: an Euler-XYZ key. Line 688 reads self.properties, which an
\* ArmatureAnimation does not have, before anything is computed or written.
ImportEulerRotation ==
    /\ pc = "start"
    /\ rot_key.encoding = "euler"
    /\ pc' = "AttributeError"
    /\ UNCHANGED <<scene_vars, bone_vars, fps_vars, anim_vars, flag_vars,
                   corr_vars, edit_vars, kf_vars, rot_vars, ext_vars>>

\* lines 712-722: a quaternion key
ImportQuaternionRotation ==
    /\ pc = "start"
    /\ rot_key.encoding = "quaternion"
    /\ rot_channel' = quaternion_rotation(rot_key)
    /\ pc' = "done"
    /\ UNCHANGED <<scene_vars, bone_vars, fps_vars, anim_vars, flag_vars,
                   corr_vars, edit_vars, kf_vars, rot_key, ext_vars>>

RotNext ==
    \/ ImportBSplineRotation
    \/ ImportEulerRotation
    \/ ImportQuaternionRotation

SpecRot == RotInit /\ [][RotNext]_vars

-----------------------------------------------------------------------------
(* SpecCache: one call of import_armature, one import_bone call and one     *)
(* pose bone of import_armature_animation at a time                         *)

\* armature_import.py line 234 assigns armature.DICT_BONES_EXTRA_MATRIX[n_block];
\* animation_import.py line 528 reads armature.dict_bones_extra_matrix[niBone].
\* The module io_scene_nif.modules.armature binds the second name to the
\* dictionary of the first, to another (empty) dictionary, or not at all.
ExtraMatrixBindings == {"DICT_BONES_EXTRA_MATRIX", "empty", "undefined"}

\* the bones of the armature: DICT_ARMATURES[n_armature]
ArmatureBones(arm) == {b \in ArmBlocks : arm.is_bone[b]}

\* the parent of every bone is a bone or the armature root (the skeleton
\* only branch of mark_armatures_bones can leave a grouping node in between)
ArmatureTreeComplete(arm) ==
    \A b \in ArmatureBones(arm) : arm.parent[b] = 0 \/ arm.is_bone[arm.parent[b]]

CachePositions == {<<0, 0, 0>>, <<2000, 0, 0>>}

CacheInit ==
    /\ NoScene
    /\ ImporterStart
    /\ EstimatorStart
    /\ AnimationStart
    /\ FlagsStart
    /\ CorrectionStart
    /\ KfStart
    /\ RotationStart
    /\ NameStart
    /\ MaterialStart
    /\ TrackStart
    /\ edit_bones = [b \in ArmBlocks |-> NoEditBone]
    /\ DICT_BONES_EXTRA_MATRIX = [b \in ArmBlocks |-> 0]
    /\ extra_reads = [b \in ArmBlocks |-> 0]
    /\ bone_todo = <<>>
    /\ pose_bones = <<>>
    /\ import_animation \in BOOLEAN
    /\ dict_bones_extra_matrix \in ExtraMatrixBindings
    /\ \E parent \in ArmParents : \E is_bone \in [ArmBlocks -> BOOLEAN] :
       \E pos \in [ArmBlocks -> CachePositions] : \E realign \in {0, 2} :
          /\ n_armature = [parent |-> parent, is_bone |-> is_bone, pos |-> pos,
                           realign |-> realign, epsilon |-> <<1, 2000>>,
                           scale |-> <<1, 1>>]
          /\ ImportExact(n_armature, edit_bones, n_child_bones(n_armature, 0))

\* import_armature, lines 76-96: the armature object, edit mode, and the
\* bone children of the armature root
CacheImportArmature ==
    /\ pc = "start"
    /\ bone_todo' = n_child_bones(n_armature, 0)
    /\ pc' = "edit_bones"
    /\ UNCHANGED <<scene_vars, bone_vars, fps_vars, anim_vars, flag_vars, corr_vars,
                   edit_vars, kf_vars, rot_vars, name_vars, mat_vars, track_vars,
                   DICT_BONES_EXTRA_MATRIX, extra_reads, pose_bones,
                   import_animation, dict_bones_extra_matrix>>

\* import_bone, lines 132-238: the next call, up to the calls for its bone
\* children (lines 239-246 set parents only)
CacheImportBone ==
    /\ pc = "edit_bones"
    /\ bone_todo # <<>>
    /\ LET b == Head(bone_todo)
           b_bone == import_bone(n_armature, edit_bones, b)
       IN IF ~n_armature.is_bone[b]
          THEN /\ bone_todo' = Tail(bone_todo)
               /\ UNCHANGED <<edit_bones, DICT_BONES_EXTRA_MATRIX, pose_bones>>
          ELSE /\ edit_bones' =
                     [edit_bones EXCEPT ![b] =
                         [present |-> TRUE, head |-> b_bone.head,
                          tail |-> b_bone.tail,
                          is_zero_length |-> b_bone.is_zero_length]]
               /\ pose_bones' = Append(pose_bones, b)
               /\ DICT_BONES_EXTRA_MATRIX' =
                     [DICT_BONES_EXTRA_MATRIX EXCEPT ![b] = @ + 1]
               /\ bone_todo' = n_child_bones(n_armature, b) \o Tail(bone_todo)
    /\ UNCHANGED <<scene_vars, bone_vars, pc, fps_vars, anim_vars, flag_vars,
                   corr_vars, n_armature, kf_vars, rot_vars, name_vars, mat_vars,
                   track_vars, extra_reads, import_animation,
                   dict_bones_extra_matrix>>

\* import_armature, lines 100-108: object mode, then the animation if asked for
CacheBonesDone ==
    /\ pc = "edit_bones"
    /\ bone_todo = <<>>
    /\ pc' = IF import_animation THEN "pose_bones" ELSE "done"
    /\ UNCHANGED <<scene_vars, bone_vars, fps_vars, anim_vars, flag_vars, corr_vars,
                   edit_vars, kf_vars, rot_vars, ext_vars>>

\* import_armature_animation, lines 484-532: the next pose bone, its block
\* and its extra matrix
CacheReadExtraMatrix ==
    /\ pc = "pose_bones"
    /\ bone_idx < Len(pose_bones)
    /\ LET niBone == pose_bones[bone_idx + 1]
       IN IF dict_bones_extra_matrix = "undefined"
          THEN /\ pc' = "AttributeError"
               /\ UNCHANGED <<bone_idx, extra_reads>>
          ELSE IF \/ dict_bones_extra_matrix = "empty"
                  \/ DICT_BONES_EXTRA_MATRIX[niBone] = 0
          THEN /\ pc' = "KeyError"
               /\ UNCHANGED <<bone_idx, extra_reads>>
          ELSE /\ extra_reads' = [extra_reads EXCEPT ![niBone] = @ + 1]
               /\ bone_idx' = bone_idx + 1
               /\ pc' = pc
    /\ UNCHANGED <<scene_vars, bone_vars, fps_vars, animation_fps, armature_fps,
                   keyframes, kfc, extrapolation, scene, flag_vars, corr_vars,
                   edit_vars, kf_vars, rot_vars, name_vars, mat_vars, track_vars,
                   DICT_BONES_EXTRA_MATRIX, bone_todo, pose_bones,
                   import_animation, dict_bones_extra_matrix>>

\* import_armature, lines 110-128, after the last pose bone: the priority
\* constraints, and the return
CacheAnimationDone ==
    /\ pc = "pose_bones"
    /\ bone_idx = Len(pose_bones)
    /\ pc' = "done"
    /\ UNCHANGED <<scene_vars, bone_vars, fps_vars, anim_vars, flag_vars, corr_vars,
                   edit_vars, kf_vars, rot_vars, ext_vars>>

CacheNext ==
    \/ CacheImportArmature
    \/ CacheImportBone
    \/ CacheBonesDone
    \/ CacheReadExtraMatrix
    \/ CacheAnimationDone

SpecCache == CacheInit /\ [][CacheNext]_vars

-----------------------------------------------------------------------------
(* import_name. A name is the sequence of the code points of its            *)
(* characters.                                                              *)

\* "noname", "RootCollisionNode", "InvMarker"
noname == <<110, 111, 110, 97, 109, 101>>
RootCollisionNodeName ==
    <<82, 111, 111, 116, 67, 111, 108, 108, 105, 115, 105, 111, 110, 78, 111, 100, 101>>
InvMarker == <<73, 110, 118, 77, 97, 114, 107, 101, 114>>

\* range(-1, 1000) ends with 999
LastUniqueInt == 999

\* s[:n], for n >= 0
Prefix(s, n) == SubSeq(s, 1, Min(Len(s), n))

\* '%02d' % i, for 0 <= i < 1000
Format02d(i) ==
    IF i < 100 THEN <<48 + (i \div 10), 48 + (i % 10)>>
    ELSE <<48 + (i \div 100), 48 + ((i \div 10) % 10), 48 + (i % 10)>>

\* armature.get_bone_name_for_blender: it moves the left and right marker of
\* a Bip01 or NPC bone name to its end; the names here carry no such marker
get_bone_name_for_blender(name) == name

\* lines 80-85: the candidate name of one pass of the loop
ShortName(nif_name, uniqueInt, max_length) ==
    get_bone_name_for_blender(
        IF uniqueInt = -1 THEN Prefix(nif_name, max_length - 1)
        ELSE Prefix(nif_name, max_length - 4) \o <<46>> \o Format02d(uniqueInt))

\* lines 69-75: the name of the block, something non-empty for an empty one
NifNameOf(block) ==
    IF n_name[block] # <<>> THEN n_name[block]
    ELSE IF n_type[block] = "RootCollisionNode" THEN RootCollisionNodeName
    ELSE noname

\* lines 87-89: n_name not in obj.DICT_NAMES. The keys of DICT_NAMES are
\* blocks and n_name is a string, so the string is never among them.
NotInDictNames(nif_name, names) == TRUE

\* lines 87-94 with the name looked up among the names given so far
Breaks_AmongGivenNames(nif_name, short_name, names, data) ==
    /\ short_name \notin data
    /\ \A n \in Nodes : ~(names[n].present /\ names[n].name = short_name)

\* lines 87-94: the pass of the loop ends the search
Breaks(nif_name, short_name, names, data) ==
    \/ nif_name = InvMarker /\ NotInDictNames(nif_name, names)
    \/ short_name \notin data

\* lines 77-96: the loop from uniqueInt on, up to its break; past the last
\* value when the loop runs to its end. The passes are taken twenty at a
\* time.
RECURSIVE UniqueIntFrom(_, _, _, _, _)
UniqueIntFrom(uniqueInt, nif_name, max_length, names, data) ==
    IF uniqueInt > LastUniqueInt THEN uniqueInt
    ELSE IF Breaks(nif_name, ShortName(nif_name, uniqueInt, max_length), names, data)
    THEN uniqueInt
    ELSE LET last == Min(uniqueInt + 20, LastUniqueInt)
             breaking == {i \in (uniqueInt + 1)..last :
                             Breaks(nif_name, ShortName(nif_name, i, max_length),
                                    names, data)}
         IN IF breaking # {}
            THEN CHOOSE i \in breaking : \A j \in breaking : i <= j
            ELSE UniqueIntFrom(last + 1, nif_name, max_length, names, data)

\* DICT_BLOCKS[name] = block
SetBlock(blocks, name, block) ==
    {p \in blocks : p[1] # name} \cup {<<name, block>>}

\* import_name, lines 50-104, on the name tables and the names Blender has
import_name(block, max_length, names, blocks, data) ==
    IF block = None
    THEN [names |-> names, blocks |-> blocks, status |-> "ok",
          ret |-> [kind |-> "None", name |-> <<>>]]
    ELSE IF names[block].present
    THEN [names |-> names, blocks |-> blocks, status |-> "ok",
          ret |-> [kind |-> "name", name |-> names[block].name]]
    ELSE LET nif_name == NifNameOf(block)
             uniqueInt == UniqueIntFrom(-1, nif_name, max_length, names, data)
         IN IF uniqueInt > LastUniqueInt
            THEN [names |-> names, blocks |-> blocks, status |-> "RuntimeError",
                  ret |-> NoReturn]
            ELSE LET short_name == ShortName(nif_name, uniqueInt, max_length)
                 IN [names |-> [names EXCEPT ![block] =
                                   [present |-> TRUE, name |-> short_name]],
                     blocks |-> SetBlock(blocks, short_name, block),
                     status |-> "ok",
                     ret |-> [kind |-> "name", name |-> short_name]]

-----------------------------------------------------------------------------
(* SpecName: calls of import_name on the blocks of a file, by import_bone   *)
(* and import_material, which make no Blender object of the name, and by    *)
(* import_empty, which does                                                 *)

NifNames == {<<>>, <<97>>, InvMarker}

\* the blocks of the file that get a name
NameBlocks == 1..NumNamedBlocks

\* the default of max_length, and a short one
MaxLengths == {DefaultMaxLength, 6}

\* every name import_name tries for a block name
AllShortNames(nif_name, max_length) ==
    {ShortName(nif_name, i, max_length) : i \in -1..LastUniqueInt}

\* the names the Blender file has before the import
InitialData ==
    {{}, {<<97>>}, AllShortNames(<<97>>, DefaultMaxLength),
     AllShortNames(InvMarker, DefaultMaxLength)}

NameInit ==
    /\ \E first_type \in {"NiNode", "RootCollisionNode"} :
       \E names \in [NameBlocks -> NifNames] :
          SceneIs([n \in Nodes |-> None],
                  [n \in Nodes |-> IF n = 1 THEN first_type ELSE "NiNode"],
                  [n \in Nodes |-> IF n \in NameBlocks THEN names[n] ELSE <<>>],
                  NoSkins,
                  Props("EVERYTHING", FALSE, FALSE, FALSE, FALSE, <<>>, <<>>))
    /\ ImporterStart
    /\ EstimatorStart
    /\ AnimationStart
    /\ FlagsStart
    /\ CorrectionStart
    /\ EditStart
    /\ KfStart
    /\ RotationStart
    /\ DICT_BLOCKS = {}
    /\ bpy_data \in InitialData
    /\ name_call = NoCall
    /\ name_ret = NoReturn
    /\ MaterialStart
    /\ TrackStart
    /\ CacheStart

\* a call of import_name alone (import_bone line 141, import_armature line
\* 76, import_material line 86 with name None for no block)
ImportName ==
    /\ pc = "start"
    /\ \E block \in NameBlocks \cup {None} : \E max_length \in MaxLengths :
          LET st == import_name(block, max_length, DICT_NAMES, DICT_BLOCKS, bpy_data)
          IN /\ DICT_NAMES' = st.names
             /\ DICT_BLOCKS' = st.blocks
             /\ name_call' = [block |-> block, max_length |-> max_length]
             /\ name_ret' = st.ret
             /\ pc' = IF st.status = "ok" THEN "start" ELSE st.status
    /\ UNCHANGED bpy_data
    /\ UNCHANGED <<scene_vars, DICT_ARMATURES, skelroot, skin_todo, cbt_bone,
                   cbt_first, fps_vars, anim_vars, flag_vars, corr_vars,
                   edit_vars, kf_vars, rot_vars, mat_vars, track_vars,
                   cache_vars>>

\* import_empty, lines 180-183: the name, then a Blender object of that name
ImportEmpty ==
    /\ pc = "start"
    /\ \E block \in NameBlocks :
          LET st == import_name(block, DefaultMaxLength, DICT_NAMES, DICT_BLOCKS, bpy_data)
          IN /\ DICT_NAMES' = st.names
             /\ DICT_BLOCKS' = st.blocks
             /\ name_call' = [block |-> block, max_length |-> DefaultMaxLength]
             /\ name_ret' = st.ret
             /\ bpy_data' = IF st.status = "ok"
                            THEN bpy_data \cup {st.ret.name} ELSE bpy_data
             /\ pc' = IF st.status = "ok" THEN "start" ELSE st.status
    /\ UNCHANGED <<scene_vars, DICT_ARMATURES, skelroot, skin_todo, cbt_bone,
                   cbt_first, fps_vars, anim_vars, flag_vars, corr_vars,
                   edit_vars, kf_vars, rot_vars, mat_vars, track_vars,
                   cache_vars>>

NameNext ==
    \/ ImportName
    \/ ImportEmpty

SpecName == NameInit /\ [][NameNext]_vars

-----------------------------------------------------------------------------
(* import_material. Colour components, emit and the intensities are counted *)
(* in halves: 1 is 0.5 and 2 is 1.0                                         *)

\* import_material_ambient, lines 158-161
import_material_ambient(mat, prop) ==
    [mat EXCEPT !.ambient_color = prop.ambient_color]

\* import_material_diffuse, lines 151-155
import_material_diffuse(mat, prop) ==
    [mat EXCEPT !.diffuse_color = prop.diffuse_color, !.diffuse_intensity = 2]

\* import_material_emissive without its last line
import_material_emissive_NoEmit(mat, prop) ==
    [mat EXCEPT !.emissive_color = prop.emissive_color]

\* import_material_emissive, lines 144-148
import_material_emissive(mat, prop) ==
    [mat EXCEPT !.emissive_color = prop.emissive_color, !.emit = prop.emit_multi]

\* import_material_specular, lines 138-141
import_material_specular(mat, prop) ==
    [mat EXCEPT !.specular_color = prop.specular_color]

\* set_alpha, lines 63-72
set_alpha(mat, alpha_prop) ==
    [mat EXCEPT !.use_transparency = TRUE, !.alpha = 0,
                !.offset_z = alpha_prop.threshold,
                !.alphaflag = alpha_prop.flags]

-----------------------------------------------------------------------------
(* SpecMat: one call of import_material, statement by statement, for a      *)
(* geometry without texture property                                        *)

\* the block of the file that is the material property
MatBlock == NumNodes

Black == <<0, 0, 0>>
Colours == {Black, <<1, 0, 0>>, <<2, 1, 2>>}
Emits == {0, 2, 4}

MaterialProperties ==
    [present : {TRUE}, ambient_color : Colours, diffuse_color : Colours,
     emissive_color : Colours, specular_color : {Black, <<2, 1, 2>>},
     emit_multi : Emits, glossiness : {10}]

AlphaProperties ==
    {[present |-> FALSE, threshold |-> 0, flags |-> 0],
     [present |-> TRUE, threshold |-> 128, flags |-> 4845]}

\* bpy.data.materials.new(name): a material as Blender makes it; what its
\* fields hold at first is Blender's matter
NewMaterials ==
    {[present |-> TRUE, name |-> <<>>,
      ambient_color |-> c, diffuse_color |-> c, emissive_color |-> c,
      specular_color |-> c, emit |-> c[1], diffuse_intensity |-> c[1],
      specular_hardness |-> 50, specular_intensity |-> c[1],
      use_transparency |-> FALSE, alpha |-> 2, offset_z |-> 0, alphaflag |-> 0] :
        c \in Colours}

MatInit ==
    /\ \E name \in {<<>>, <<97>>} :
          SceneIs([n \in Nodes |-> None], [n \in Nodes |-> "NiNode"],
                  [n \in Nodes |-> IF n = MatBlock THEN name ELSE <<>>], NoSkins,
                  Props("EVERYTHING", FALSE, FALSE, FALSE, FALSE, <<>>, <<>>))
    /\ ImporterStart
    /\ EstimatorStart
    /\ AnimationStart
    /\ FlagsStart
    /\ CorrectionStart
    /\ EditStart
    /\ KfStart
    /\ RotationStart
    /\ DICT_BLOCKS = {}
    /\ bpy_data \in {{}, {<<97>>}}
    /\ name_call = NoCall
    /\ name_ret = NoReturn
    /\ n_mat_prop \in MaterialProperties \cup {NoMaterialProperty}
    /\ n_alpha_prop \in AlphaProperties
    /\ n_specular_prop \in BOOLEAN
    /\ version_14000004 \in BOOLEAN
    /\ b_mat = NoMaterial
    /\ TrackStart
    /\ CacheStart

\* lines 85-92: the name, the new material, and whether there is a material
\* property to read
MaterialNew ==
    /\ pc = "start"
    /\ LET block == IF n_mat_prop.present THEN MatBlock ELSE None
           st == import_name(block, DefaultMaxLength, DICT_NAMES, DICT_BLOCKS, bpy_data)
           name == IF st.ret.kind = "None" THEN active_obj_name \o nt_mat
                   ELSE st.ret.name
       IN /\ DICT_NAMES' = st.names
          /\ DICT_BLOCKS' = st.blocks
          /\ name_call' = [block |-> block, max_length |-> DefaultMaxLength]
          /\ name_ret' = st.ret
          /\ IF st.status = "ok"
             THEN /\ \E m \in NewMaterials : b_mat' = [m EXCEPT !.name = name]
                  /\ bpy_data' = bpy_data \cup {name}
                  /\ pc' = IF n_mat_prop.present THEN "ambient" ELSE "alpha"
             ELSE /\ UNCHANGED <<b_mat, bpy_data>>
                  /\ pc' = st.status
    /\ UNCHANGED <<scene_vars, DICT_ARMATURES, skelroot, skin_todo, cbt_bone,
                   cbt_first, fps_vars, anim_vars, flag_vars, corr_vars,
                   edit_vars, kf_vars, rot_vars, track_vars, cache_vars,
                   n_mat_prop, n_alpha_prop, n_specular_prop, version_14000004>>

\* what a statement of import_material leaves alone
MaterialStepUnchanged ==
    UNCHANGED <<scene_vars, bone_vars, fps_vars, anim_vars, flag_vars, corr_vars,
                edit_vars, kf_vars, rot_vars, name_vars, track_vars, cache_vars,
                n_mat_prop, n_alpha_prop, n_specular_prop, version_14000004>>

\* line 94
ImportMaterialAmbient ==
    /\ pc = "ambient"
    /\ b_mat' = import_material_ambient(b_mat, n_mat_prop)
    /\ pc' = "diffuse"
    /\ MaterialStepUnchanged

\* line 97
ImportMaterialDiffuse ==
    /\ pc = "diffuse"
    /\ b_mat' = import_material_diffuse(b_mat, n_mat_prop)
    /\ pc' = "emissive"
    /\ MaterialStepUnchanged

\* line 104
ImportMaterialEmissive ==
    /\ pc = "emissive"
    /\ b_mat' = import_material_emissive(b_mat, n_mat_prop)
    /\ pc' = "specular"
    /\ MaterialStepUnchanged

\* lines 107-115: gloss, specular colour and specular intensity
ImportMaterialSpecular ==
    /\ pc = "specular"
    /\ b_mat' = [import_material_specular(b_mat, n_mat_prop) EXCEPT
                    !.specular_hardness = n_mat_prop.glossiness,
                    !.specular_intensity =
                        IF ~n_specular_prop /\ ~version_14000004 THEN 0 ELSE 2]
    /\ pc' = "alpha"
    /\ MaterialStepUnchanged

\* lines 119-135: the alpha property, no texture property, return
ImportMaterialAlpha ==
    /\ pc = "alpha"
    /\ b_mat' = IF n_alpha_prop.present THEN set_alpha(b_mat, n_alpha_prop)
                ELSE b_mat
    /\ pc' = "done"
    /\ MaterialStepUnchanged

MatNext ==
    \/ MaterialNew
    \/ ImportMaterialAmbient
    \/ ImportMaterialDiffuse
    \/ ImportMaterialEmissive
    \/ ImportMaterialSpecular
    \/ ImportMaterialAlpha

SpecMat == MatInit /\ [][MatNext]_vars

-----------------------------------------------------------------------------
(* Properties of mark_armatures_bones and complete_bone_tree *)

\* every block on the parent chain from b up to (excluding) R is a bone of R
RECURSIVE ChainMarked(_, _, _)
ChainMarked(b, R, arm) ==
    /\ b # None
    /\ \/ n_parent[b] = R
       \/ /\ n_parent[b] # None
          /\ IsBoneOf(arm, R, n_parent[b])
          /\ ChainMarked(n_parent[b], R, arm)

BoneTreeComplete ==
    \A R \in Nodes : IsArmature(DICT_ARMATURES, R) =>
        \A i \in 1..Len(DICT_ARMATURES[R].bones) :
            ChainMarked(DICT_ARMATURES[R].bones[i], R, DICT_ARMATURES)

\* C1: after mark_armatures_bones has finished, in every mode, for every
\* armature root R and every bone B of R, every block on the parent chain from
\* B up to (excluding) R is a bone of R too.
C1_BoneTreeComplete == pc = "done" => BoneTreeComplete

\* the bone complete_bone_tree was called on, and every block from it up to
\* (excluding) R, is a bone of R
RECURSIVE PathMarked(_, _, _)
PathMarked(b, R, arm) ==
    /\ b # None
    /\ IsBoneOf(arm, R, b)
    /\ \/ n_parent[b] = R
       \/ PathMarked(n_parent[b], R, arm)

CompleteBoneTreeReturned ==
    (pc \in {"skin_loop", "done"} /\ cbt_first # None)
        => PathMarked(cbt_first, skelroot, DICT_ARMATURES)

\* C2: complete_bone_tree(bone, skelroot) on a bone of a skin instance comes to
\* an end, and when it returns every block on the parent path from that bone
\* up to (excluding) the armature root is a bone of that armature.
C2_CompleteBoneTreeEndsWithPathMarked ==
    /\ (pc = "complete_bone_tree") ~> (pc # "complete_bone_tree")
    /\ []CompleteBoneTreeReturned

\* all skin bones are done, the last one two levels below the skeleton root
C2_Witness ==
    /\ pc = "done"
    /\ cbt_first # None
    /\ n_parent[cbt_first] # None
    /\ n_parent[cbt_first] # skelroot
    /\ n_parent[n_parent[cbt_first]] = skelroot
    /\ IsBoneOf(DICT_ARMATURES, skelroot, n_parent[cbt_first])

-----------------------------------------------------------------------------
(* Properties of get_frames_per_second *)

Candidates == {20, 25, 30, 35}

\* the distance of time * fps to the nearest integer
NearestError(time, fps) ==
    LET r == (time[1] * fps) % time[2]
    IN <<IF 2 * r <= time[2] THEN r ELSE time[2] - r, time[2]>>

RECURSIVE TotalError(_, _)
TotalError(key_times, fps) ==
    IF key_times = <<>> THEN <<0, 1>>
    ELSE RatAdd(NearestError(Head(key_times), fps), TotalError(Tail(key_times), fps))

RatLeq(x, y) == ~RatLess(y, x)

MinimalError(key_times, fps) ==
    \A c \in Candidates : RatLeq(TotalError(key_times, fps), TotalError(key_times, c))

\* C4: for a non-empty list of key times get_frames_per_second returns a
\* candidate of {20, 25, 30, 35} whose total rounding error is minimal over
\* the candidates, and it returns 30 whenever 30 attains that minimum.
C4_MinimalErrorDefault30 ==
    (pc = "done" /\ KeyTimes(roots) # <<>>) =>
        /\ FPS \in Candidates
        /\ MinimalError(KeyTimes(roots), FPS)
        /\ MinimalError(KeyTimes(roots), 30) => FPS = 30

\* two keys or more, 30 and another candidate share the least error
C4_Witness ==
    /\ pc = "done"
    /\ Len(KeyTimes(roots)) >= 2
    /\ FPS = 30
    /\ MinimalError(KeyTimes(roots), 20)
    /\ ~MinimalError(KeyTimes(roots), 25)

\* no keyframe data keys, no B-spline interpolator with basis data, no UV keys
NoKeys(block) ==
    /\ block.type \in {"NiKeyframeData", "NiUVData"} =>
          \A i \in 1..Len(block.tracks) : block.tracks[i] = <<>>
    /\ block.type = "NiBSplineInterpolator" => ~block.basis_data

NoKeyTimes ==
    \A r \in 1..Len(roots) : \A b \in 1..Len(roots[r]) : NoKeys(roots[r][b])

\* C5: when the scanned roots hold no key times at all, get_frames_per_second
\* returns 30.
C5_NoKeysDefault30 == (pc = "done" /\ NoKeyTimes) => FPS = 30

\* a B-spline interpolator without basis data, with control points, was scanned
C5_Witness ==
    /\ pc = "done"
    /\ NoKeyTimes
    /\ \E r \in 1..Len(roots) : \E b \in 1..Len(roots[r]) :
          /\ roots[r][b].type = "NiBSplineInterpolator"
          /\ roots[r][b].num_control_points > 2

\* every key time is an exact multiple of 1/k s
MultiplesOf(key_times, k) ==
    \A i \in 1..Len(key_times) : (key_times[i][1] * k) % key_times[i][2] = 0

\* C6 as stated: for every non-empty set of key times that are all exact
\* multiples of 1/25 s, get_frames_per_second returns 25.
C6_Multiples25Give25 ==
    (pc = "done" /\ KeyTimes(roots) # <<>> /\ MultiplesOf(KeyTimes(roots), 25))
        => FPS = 25

\* C6 as amended: for every non-empty set of key times that are all exact
\* multiples of 1/25 s, get_frames_per_second returns 25, unless every key time
\* is a multiple of 1/5 s as well (30 has no error then either): then 30.
C6_Multiples25Give25Unless30Exact ==
    (pc = "done" /\ KeyTimes(roots) # <<>> /\ MultiplesOf(KeyTimes(roots), 25))
        => FPS = IF MultiplesOf(KeyTimes(roots), 5) THEN 30 ELSE 25

\* key times at multiples of 1/25 s, one of them no multiple of 1/5 s
C6_Witness ==
    /\ pc = "done"
    /\ Len(KeyTimes(roots)) >= 2
    /\ MultiplesOf(KeyTimes(roots), 25)
    /\ ~MultiplesOf(KeyTimes(roots), 5)
    /\ FPS = 25

-----------------------------------------------------------------------------
(* Properties of the keys written by the animation handlers *)

RotationPaths == {"rotation_quaternion", "rotation_euler"}

\* C3: in import_armature_animation no location keyframe of a bone is inserted
\* before the last scale or rotation keyframe of the same bone: every key
\* written after a location key of the bone is a location key.
C3_LocationAfterScaleAndRotation ==
    \A i, j \in 1..Len(keyframes) :
        (keyframes[i].target = "bone" /\ keyframes[i].data_path = "location" /\ i < j)
            => keyframes[j].data_path = "location"

\* a bone with scale, rotation and location keys has been imported
C3_Witness ==
    /\ pc = "extend"
    /\ \E i, j, k \in 1..Len(keyframes) :
          /\ keyframes[i].target = "bone"
          /\ keyframes[i].data_path = "scale"
          /\ keyframes[j].data_path \in RotationPaths
          /\ keyframes[k].data_path = "location"

\* r is an integer nearest to time * fps
NearestInteger(r, time, fps) == 2 * Abs(r * time[2] - time[1] * fps) <= time[2]

\* C7: for every key of every scale, rotation and translation track, of an
\* object and of a bone, the frame written is round(time * fps) + 1.
C7_FrameIsRoundedTimePlusOne ==
    \A i \in 1..Len(keyframes) :
        keyframes[i].target \in {"object", "bone"} =>
            NearestInteger(keyframes[i].frame - 1, keyframes[i].time, keyframes[i].fps)

\* a bone translation key at 0.09 s with 30 frames per second: frame 4
C7_Witness ==
    \E i \in 1..Len(keyframes) :
        /\ keyframes[i].target = "bone"
        /\ keyframes[i].data_path = "location"
        /\ keyframes[i].time = TickTime(9)
        /\ keyframes[i].fps = 30
        /\ keyframes[i].frame = 4

\* C8: a key with time 0.0 is put at frame 1, for every frames-per-second
\* value and in every channel.
C8_TimeZeroIsFrameOne ==
    \A i \in 1..Len(keyframes) :
        keyframes[i].time[1] = 0 => keyframes[i].frame = 1

\* a bone translation key at time 0.0 with 25 frames per second
C8_Witness ==
    \E i \in 1..Len(keyframes) :
        /\ keyframes[i].target = "bone"
        /\ keyframes[i].data_path = "location"
        /\ keyframes[i].time[1] = 0
        /\ keyframes[i].fps = 25

-----------------------------------------------------------------------------
(* Property of get_extend_from_flags *)

\* bits 1 and 2 of the flags, as a number 0..3
Bits1And2(flags) == (flags \div 2) % 4

\* C9: get_extend_from_flags depends on bits 1 and 2 of the flags only: the
\* constant mode when they are 0b10, the cyclic mode when they are 0b00, and a
\* warning with the constant mode otherwise; no other value is returned.
C9_ExtendFromBits1And2 ==
    pc = "done" =>
        /\ Bits1And2(n_flags) = 2 => extend = [mode |-> "CONST", warned |-> FALSE]
        /\ Bits1And2(n_flags) = 0 => extend = [mode |-> "CYCLIC", warned |-> FALSE]
        /\ Bits1And2(n_flags) \in {1, 3} => extend = [mode |-> "CONST", warned |-> TRUE]

\* flags with bit 0 and higher bits set, and an unsupported cycle mode
C9_Witness ==
    /\ pc = "done"
    /\ n_flags > 8
    /\ n_flags % 2 = 1
    /\ extend.warned

-----------------------------------------------------------------------------
(* Property of find_correction_matrix *)

SignedAxes(sum) == <<sum[1], sum[2], sum[3], -sum[1], -sum[2], -sum[3]>>

\* axis a of +x, +y, +z, -x, -y, -z is the dominant one of the offset
DominantAxis(sum, a) ==
    /\ SignedAxes(sum)[a] > 0
    /\ \A b \in 1..6 : b # a => SignedAxes(sum)[b] < SignedAxes(sum)[a]

\* the two non-dominant absolute components together
OffAxis(sum, a) == Abs(sum[1]) + Abs(sum[2]) + Abs(sum[3]) - SignedAxes(sum)[a]

\* C10: for a bone in correction mode find_correction_matrix returns the
\* matrix of the dominant signed axis of the accumulated child offset when
\* (sum of the two other absolute components) / (dominant component) is
\* below 0.25, and the identity otherwise.
C10_DominantAxisMatrix ==
    (pc = "done" /\ corr_block.realign = 2 /\ corr_block.is_bone
                 /\ corr_block.children # <<>>) =>
        \A a \in 1..6 : DominantAxis(SumOffsets(corr_block.children), a) =>
            m_correction =
                IF 4 * OffAxis(SumOffsets(corr_block.children), a)
                      < SignedAxes(SumOffsets(corr_block.children))[a]
                THEN BONE_CORRECTION_MATRICES[a]
                ELSE IDENTITY33

-----------------------------------------------------------------------------
(* Properties of import_bone *)

\* the immediate children of b that are bones
ImmediateBoneChildren(b) ==
    {c \in ArmBlocks : n_armature.parent[c] = b /\ n_armature.is_bone[c]}

\* the sum of coordinate i of the positions of the blocks of S
RECURSIVE CoordSum(_, _)
CoordSum(S, i) ==
    IF S = {} THEN 0
    ELSE LET c == CHOOSE x \in S : TRUE
         IN n_armature.pos[c][i] + CoordSum(S \ {c}, i)

\* C11: every edit bone has its head at the bone's own armature-space
\* position, and a bone with bone children that is not zero-length has its
\* tail at the component-wise average of the positions of its immediate bone
\* children only.
C11_HeadOwnPositionTailChildAverage ==
    pc = "done" =>
        \A b \in ArmBlocks : edit_bones[b].present =>
            /\ edit_bones[b].head = n_armature.pos[b]
            /\ (ImmediateBoneChildren(b) # {} /\ ~edit_bones[b].is_zero_length) =>
                  \A i \in 1..3 :
                      edit_bones[b].tail[i] * Cardinality(ImmediateBoneChildren(b))
                          = CoordSum(ImmediateBoneChildren(b), i)

\* a bone at (0,0,0) with bone children at (1,0,0) and (3,0,0) got the tail
\* (2,0,0); another bone has a child that is not a bone
C11_Witness ==
    /\ pc = "done"
    /\ \E b \in ArmBlocks :
          /\ edit_bones[b].present
          /\ edit_bones[b].head = <<0, 0, 0>>
          /\ edit_bones[b].tail = <<4000, 0, 0>>
          /\ ~edit_bones[b].is_zero_length
          /\ \E c1, c2 \in ImmediateBoneChildren(b) :
                /\ n_armature.pos[c1] = <<2000, 0, 0>>
                /\ n_armature.pos[c2] = <<6000, 0, 0>>

\* |x| / n * 200 < epsilon, for x in units
WithinEpsilon(x, n) ==
    LET g == GCD(200 * n_armature.epsilon[2], PosUnits * n_armature.epsilon[1] * n)
    IN Abs(x) * ((200 * n_armature.epsilon[2]) \div g)
          < (PosUnits * n_armature.epsilon[1] * n) \div g

\* every coordinate of the average position of the bone children of b is
\* within epsilon / 200 of the head of b
ChildAverageAtHead(b) ==
    \A i \in 1..3 :
        WithinEpsilon(CoordSum(ImmediateBoneChildren(b), i)
                         - Cardinality(ImmediateBoneChildren(b)) * n_armature.pos[b][i],
                      Cardinality(ImmediateBoneChildren(b)))

\* C12: a bone without bone children is zero-length, a bone whose child
\* average is exactly its head is zero-length, and a bone with bone children
\* is zero-length only if every coordinate of the child average is within the
\* epsilon-scaled threshold of the head.
C12_ZeroLengthIffChildrenAtHead ==
    pc = "done" =>
        \A b \in ArmBlocks : edit_bones[b].present =>
            /\ ImmediateBoneChildren(b) = {} => edit_bones[b].is_zero_length
            /\ (/\ ImmediateBoneChildren(b) # {}
                /\ \A i \in 1..3 :
                      CoordSum(ImmediateBoneChildren(b), i)
                         = Cardinality(ImmediateBoneChildren(b)) * n_armature.pos[b][i])
                  => edit_bones[b].is_zero_length
            /\ (ImmediateBoneChildren(b) # {} /\ edit_bones[b].is_zero_length)
                  => ChildAverageAtHead(b)

\* v points the way d does
SameDirection(v, d) ==
    /\ v[2] * d[3] = v[3] * d[2]
    /\ v[3] * d[1] = v[1] * d[3]
    /\ v[1] * d[2] = v[2] * d[1]
    /\ v[1] * d[1] + v[2] * d[2] + v[3] * d[3] > 0

\* 5.0 * scale, in units
FiveTimesScale == (5 * PosUnits * n_armature.scale[1]) \div n_armature.scale[2]

\* v has length 5.0 * scale
HasNubLength(v) ==
    v[1] * v[1] + v[2] * v[2] + v[3] * v[3] = FiveTimesScale * FiveTimesScale

\* the parent of b is a bone
HasBoneParent(b) ==
    n_armature.parent[b] # 0 /\ n_armature.is_bone[n_armature.parent[b]]

\* every coordinate of the offset from the parent's tail to the head of b is
\* within epsilon / 200 of zero
AtParentTail(b) ==
    \A i \in 1..3 :
        WithinEpsilon(edit_bones[b].head[i]
                         - edit_bones[n_armature.parent[b]].tail[i], 1)

\* C13: a zero-length bone has its tail at distance 5.0 * scale from its
\* head: straight along +x when correction mode is on or the parent is not a
\* bone, and otherwise along the offset from the parent's tail to the head,
\* or along the parent's head->tail direction when that offset is about zero.
C13_ZeroLengthBoneGetsNub ==
    pc = "done" =>
        \A b \in ArmBlocks : (edit_bones[b].present /\ edit_bones[b].is_zero_length) =>
            IF n_armature.realign = 2 \/ ~HasBoneParent(b)
            THEN VSub(edit_bones[b].tail, edit_bones[b].head) = <<FiveTimesScale, 0, 0>>
            ELSE /\ HasNubLength(VSub(edit_bones[b].tail, edit_bones[b].head))
                 /\ SameDirection(VSub(edit_bones[b].tail, edit_bones[b].head),
                       IF AtParentTail(b)
                       THEN VSub(edit_bones[n_armature.parent[b]].tail,
                                 edit_bones[n_armature.parent[b]].head)
                       ELSE VSub(edit_bones[b].head,
                                 edit_bones[n_armature.parent[b]].tail))

\* b is the leaf bone of the scenario: no bone children, correction mode off,
\* the parent a bone with its tail at (0,1,0), the head at (0,1,0.001)
LeafAtParentTail(b) ==
    /\ edit_bones[b].present
    /\ ImmediateBoneChildren(b) = {}
    /\ n_armature.realign # 2
    /\ HasBoneParent(b)
    /\ edit_bones[b].head = <<0, 2000, 2>>
    /\ edit_bones[n_armature.parent[b]].tail = <<0, 2000, 0>>

\* the tail of b is 5.0 * scale from its head, along its parent's direction
NubAlongParent(b) ==
    /\ HasNubLength(VSub(edit_bones[b].tail, edit_bones[b].head))
    /\ SameDirection(VSub(edit_bones[b].tail, edit_bones[b].head),
                     VSub(edit_bones[n_armature.parent[b]].tail,
                          edit_bones[n_armature.parent[b]].head))

\* C14 as stated: the leaf bone at (0,1,0.001) under a parent tail (0,1,0)
\* gets its synthetic tail along the parent's head->tail direction.
C14_LeafFollowsParent ==
    pc = "done" => \A b \in ArmBlocks : LeafAtParentTail(b) => NubAlongParent(b)

\* C14: the leaf bone at (0,1,0.001) under a parent tail (0,1,0) gets its
\* synthetic tail along the parent's head->tail direction when 200 * 0.001
\* is below epsilon, and straight along +z, the offset from the parent's
\* tail, when it is not.
C14_LeafFollowsParentIfEpsilonAbove ==
    pc = "done" =>
        \A b \in ArmBlocks : LeafAtParentTail(b) =>
            IF 200 * n_armature.epsilon[2] < 1000 * n_armature.epsilon[1]
            THEN NubAlongParent(b)
            ELSE VSub(edit_bones[b].tail, edit_bones[b].head) = <<0, 0, FiveTimesScale>>

\* the scenario with epsilon = 0.25: the tail follows the parent
C14_Witness ==
    /\ pc = "done"
    /\ n_armature.epsilon = <<1, 4>>
    /\ \E b \in ArmBlocks : LeafAtParentTail(b) /\ NubAlongParent(b)

-----------------------------------------------------------------------------
(* Properties of mark_armatures_bones: skeleton only import and errors *)

\* n lies in the subtree strictly below r
RECURSIVE StrictlyBelow(_, _)
StrictlyBelow(n, r) ==
    /\ n # None
    /\ n_parent[n] # None
    /\ (n_parent[n] = r \/ StrictlyBelow(n_parent[n], r))

\* the blocks of a list, and whether the list names a block only once
ListSet(list) == {list[i] : i \in 1..Len(list)}
NoDuplicates(list) == Cardinality(ListSet(list)) = Len(list)

\* C15: after a skeleton only import with a NiNode root there is one armature
\* root, it lies in the tree of the root block, and its bone list holds,
\* once each, exactly the NiNodes strictly below it that are no grouping
\* nodes.
C15_SkeletonOnlyBonesAreNonGroupingNiNodes ==
    (pc = "done" /\ props.skeleton = "SKELETON_ONLY" /\ IsNiNode(RootBlock)) =>
        /\ \E r \in Nodes : DICT_ARMATURES[r].present
        /\ \A r \in Nodes : DICT_ARMATURES[r].present =>
              /\ IsNiNode(r)
              /\ r = RootBlock \/ StrictlyBelow(r, RootBlock)
              /\ \A q \in Nodes : DICT_ARMATURES[q].present => q = r
              /\ NoDuplicates(DICT_ARMATURES[r].bones)
              /\ ListSet(DICT_ARMATURES[r].bones) =
                    {n \in Nodes : /\ StrictlyBelow(n, r)
                                   /\ IsNiNode(n)
                                   /\ is_grouping_node(n) = <<>>}

\* a skeleton only import that made bones and left out a grouping node and a
\* geometry block below the root
C15_Witness ==
    /\ pc = "done"
    /\ props.skeleton = "SKELETON_ONLY"
    /\ DICT_ARMATURES[RootBlock].present
    /\ DICT_ARMATURES[RootBlock].bones # <<>>
    /\ \E n \in Nodes : /\ StrictlyBelow(n, RootBlock)
                        /\ is_grouping_node(n) # <<>>
                        /\ ~InList(n, DICT_ARMATURES[RootBlock].bones)
    /\ \E n \in Nodes : /\ StrictlyBelow(n, RootBlock)
                        /\ IsGeom(n)
                        /\ ~InList(n, DICT_ARMATURES[RootBlock].bones)

\* a skinned geometry of the file whose skeleton root is not the block the
\* selected armature's name identifies
SkinRootMismatch ==
    \E g \in Nodes :
        /\ g = RootBlock \/ StrictlyBelow(g, RootBlock)
        /\ IsGeom(g)
        /\ n_skin[g].is_skin
        /\ n_skin[g].skeleton_root # Find(RootBlock, props.selected_name, FALSE)

\* C16 as stated: mark_armatures_bones ends with NifError when the root of a
\* skeleton only import is no NiNode, and when a geometry only import meets a
\* skinned geometry whose skeleton root is not the selected armature's root.
C16_StructuralErrors ==
    pc # "start" =>
        /\ (props.skeleton = "SKELETON_ONLY" /\ ~IsNiNode(RootBlock))
              => pc = "NifError"
        /\ (props.skeleton = "GEOMETRY_ONLY" /\ SkinRootMismatch)
              => pc = "NifError"

\* a bone name of the selected armature identifies the armature root itself
SelectedBoneIsArmatureRoot ==
    /\ Find(RootBlock, props.selected_name, FALSE) # None
    /\ \E i \in 1..Len(props.selected_bones) :
          Find(Find(RootBlock, props.selected_name, FALSE),
               props.selected_bones[i], FALSE)
             = Find(RootBlock, props.selected_name, FALSE)

\* What the calls of C16 do end with: NifError when the root of a skeleton
\* only import is no NiNode; in a geometry only import of a file that is no
\* skeleton file, with a skinned geometry whose skeleton root is not the
\* selected armature's root, AttributeError from complete_bone_tree when a
\* bone name of the selected armature identifies the armature root itself,
\* and NifError otherwise.
StructuralErrorsUnlessRaisedBefore ==
    pc # "start" =>
        /\ (props.skeleton = "SKELETON_ONLY" /\ ~IsNiNode(RootBlock))
              => pc = "NifError"
        /\ (props.skeleton = "GEOMETRY_ONLY" /\ ~props.armature_nifs
                /\ SkinRootMismatch)
              => pc = IF SelectedBoneIsArmatureRoot
                      THEN "AttributeError" ELSE "NifError"

\* C17: when mark_armatures_bones has ended with NifError the armature table
\* and the name table hold no entry.
C17_NothingLeftAfterError ==
    pc = "NifError" =>
        /\ \A n \in Nodes : ~DICT_ARMATURES[n].present
        /\ \A n \in Nodes : ~DICT_NAMES[n].present

-----------------------------------------------------------------------------
(* Properties of the keys of one bone *)

\* a list of key times that never goes back
NonDecreasing(times) ==
    \A i, j \in 1..Len(times) : i < j => times[i] <= times[j]

\* the key times of every sub-track of the data read for the bone are
\* non-decreasing
SubTracksNonDecreasing ==
    CASE kf_data.kind = "NiKeyframeData" ->
            /\ NonDecreasing(kf_data.kfd.scales)
            /\ NonDecreasing(kf_data.kfd.quaternion_keys)
            /\ NonDecreasing(kf_data.kfd.xkeys)
            /\ NonDecreasing(kf_data.kfd.translations)
      [] kf_data.kind = "NiBSplineInterpolator" -> NonDecreasing(kf_data.times)
      [] OTHER -> FALSE

\* C20 as stated: with non-decreasing key times in every sub-track, no key
\* written for the bone has a smaller frame than a key written for it before.
C20_AscendingFrames ==
    SubTracksNonDecreasing =>
        \A i, j \in 1..Len(keyframes) :
            i < j => keyframes[i].frame <= keyframes[j].frame

\* C20: with non-decreasing key times in every sub-track, no key written for
\* the bone has a smaller frame than a key written before for the same
\* channel of the bone; the channels are written one after the other.
C20_AscendingFramesPerChannel ==
    SubTracksNonDecreasing =>
        \A i, j \in 1..Len(keyframes) :
            (i < j /\ keyframes[i].data_path = keyframes[j].data_path)
               => keyframes[i].frame <= keyframes[j].frame

\* a bone with two rotation keys at rising frames, written after a scale key
\* at a later frame than the first of them
C20_Witness ==
    /\ SubTracksNonDecreasing
    /\ \E i, j, k \in 1..Len(keyframes) :
          /\ i < j /\ j < k
          /\ keyframes[i].data_path = "scale"
          /\ keyframes[j].data_path = "rotation_quaternion"
          /\ keyframes[k].data_path = "rotation_quaternion"
          /\ keyframes[j].frame < keyframes[k].frame
          /\ keyframes[j].frame < keyframes[i].frame

-----------------------------------------------------------------------------
(* Properties of interpolators without data *)

\* the interpolator as the file has it: the one of the kf file when one is
\* merged, else the one of the node's controller
SourceInterpolator ==
    IF kf_block.present THEN kf_block.interpolator ELSE n_ctrl.interpolator

IsNodeKey(k) == k.target \in {"bone", "object"}

\* the keys written for the node, as a bone or as an object
NodeKeys == SelectSeq(keyframes, IsNodeKey)

\* the animation import of a node whose interpolator has no data is over
ImportedWithoutData ==
    /\ pc \in {"done", "AttributeError"}
    /\ SourceInterpolator.type # ""
    /\ ~SourceInterpolator.has_data

\* C18 as stated: after the import of a node whose interpolator has no data
\* block, with or without a kf file merged before, no error was raised and no
\* key was written for the node.
C18_InterpolatorWithoutDataSkipped ==
    ImportedWithoutData => (pc = "done" /\ NodeKeys = <<>>)

\* C18: after the import of a node whose interpolator has no data block no
\* error was raised, and no key was written for the node, unless the
\* interpolator is a NiTransformInterpolator merged from a kf file: then one
\* rotation key at frame 1 was written and, unless the interpolator's
\* translation is the invalid marker, one location key at frame 1.
C18_InterpolatorWithoutDataSkippedUnlessMerged ==
    ImportedWithoutData =>
        /\ pc = "done"
        /\ IF kf_block.present /\ SourceInterpolator.type = "NiTransformInterpolator"
           THEN /\ Len(NodeKeys) = IF SourceInterpolator.nan THEN 1 ELSE 2
                /\ NodeKeys[1].data_path \in RotationPaths
                /\ \A i \in 1..Len(NodeKeys) :
                      /\ NodeKeys[i].frame = 1
                      /\ i > 1 => NodeKeys[i].data_path = "location"
           ELSE NodeKeys = <<>>

\* a bone whose NiTransformInterpolator came without data from a kf file and
\* that got a rotation and a location key
C18_Witness ==
    /\ ImportedWithoutData
    /\ kf_block.present
    /\ SourceInterpolator.type = "NiTransformInterpolator"
    /\ bone_idx = 1
    /\ Len(NodeKeys) = 2

-----------------------------------------------------------------------------
(* Properties of the rotation of a bone *)

\* R_x^-1 . (R_bind^-1 . R_total) . R_x
ComposedRotation(key) ==
    cross(cross(Inverted(key.extra), cross(Inverted(key.bind), key.total)),
          key.extra)

\* the import of the rotation key is over
RotationImported ==
    /\ rot_key.encoding # ""
    /\ pc \in {"done", "AttributeError"}

\* C19 as stated: in every encoding the rotation given to the pose bone for
\* a key is R_x^-1 . (R_bind^-1 . R_total) . R_x.
C19_SameCompositionForEveryEncoding ==
    RotationImported => rot_channel = ComposedRotation(rot_key)

\* quaternion keys and B-spline samples get R_x^-1 . (R_bind^-1 . R_total) . R_x
QuaternionAndBSplineComposition ==
    (RotationImported /\ rot_key.encoding # "euler")
        => (pc = "done" /\ rot_channel = ComposedRotation(rot_key))

-----------------------------------------------------------------------------
(* Properties of import_name *)

NamedBlocks == {n \in Nodes : DICT_NAMES[n].present}

\* C21 as stated: the block -> name table is injective and the name -> block
\* table is its inverse, DICT_BLOCKS[DICT_NAMES[b]] is b for every named b.
C21_NameTablesInverse ==
    /\ \A a, b \in NamedBlocks :
          DICT_NAMES[a].name = DICT_NAMES[b].name => a = b
    /\ \A b \in NamedBlocks : <<DICT_NAMES[b].name, b>> \in DICT_BLOCKS

\* the step is a call of import_name on the block
NameCallOn(block) == pc = "start" /\ name_call'.block = block

NameTablesUnchanged == UNCHANGED <<DICT_NAMES, DICT_BLOCKS>>

\* all names import_name tries for the block are names Blender has
OutOfNames(block, max_length) ==
    AllShortNames(NifNameOf(block), max_length) \subseteq bpy_data

\* a call for a block that has a name returns that name and changes no table
NamedBlockKeepsName ==
    \A block \in NamedBlocks :
        NameCallOn(block) =>
            /\ name_ret' = [kind |-> "name", name |-> DICT_NAMES[block].name]
            /\ pc' = "start"
            /\ NameTablesUnchanged

\* a call for None returns None and changes no table
NoneGivesNone ==
    NameCallOn(None) =>
        /\ name_ret'.kind = "None"
        /\ pc' = "start"
        /\ NameTablesUnchanged

-----------------------------------------------------------------------------
(* Properties of import_material *)

\* import_material has run its emissive statement for a material property
EmissiveImported ==
    /\ n_mat_prop.present
    /\ b_mat.present
    /\ pc \in {"specular", "alpha", "done"}

\* the ambient, diffuse and specular fields of the material
OtherColourFields(mat) ==
    <<mat.ambient_color, mat.diffuse_color, mat.diffuse_intensity,
      mat.specular_color, mat.specular_hardness, mat.specular_intensity>>

\* C23: once the emissive statement has run the material holds the emissive
\* colour and the emit multiplier of the material property, to the end of
\* import_material, and the emissive statement changes no ambient, diffuse or
\* specular field of the material.
C23_EmissiveCopied ==
    [][/\ EmissiveImported' =>
            /\ b_mat'.emissive_color = n_mat_prop'.emissive_color
            /\ b_mat'.emit = n_mat_prop'.emit_multi
       /\ pc = "emissive" => OtherColourFields(b_mat') = OtherColourFields(b_mat)]_vars

\* emissive (0.5, 0, 0) and emit 1.0 were imported into a material that held
\* something else in every field
C23_Witness ==
    /\ pc = "done"
    /\ n_mat_prop.present
    /\ n_mat_prop.emissive_color = <<1, 0, 0>>
    /\ n_mat_prop.emit_multi = 2
    /\ n_mat_prop.ambient_color = <<2, 1, 2>>
    /\ b_mat.emissive_color = <<1, 0, 0>>
    /\ b_mat.emit = 2
    /\ b_mat.ambient_color = <<2, 1, 2>>

-----------------------------------------------------------------------------
(* Properties of the translation keys of a bone *)

IsBoneKey(k) == k.target = "bone"
IsRotationKey(k) == k.target = "bone" /\ k.data_path \in RotationPaths
IsScaleKey(k) == k.target = "bone" /\ k.data_path = "scale"

\* the rotation and the scale keys written for the bone, in order
RotationKeys == SelectSeq(keyframes, IsRotationKey)
ScaleKeys == SelectSeq(keyframes, IsScaleKey)

HasKeyAt(keys, frame) == \E i \in 1..Len(keys) : keys[i].frame = frame

\* C24: a location key of a bone at frame f is computed with a rotation key
\* written for the bone at frame f when there is one and with the identity
\* when the bone has no rotation key, with a scale key written at frame f
\* when there is one and with 1.0 when the bone has no scale key, and the
\* import of the bone's keys ends without an error.
C24_TranslationUsesSamplesOfItsFrame ==
    loc_sources # <<>> =>
        /\ pc \notin {"AttributeError", "KeyError", "NameError", "UnboundLocalError"}
        /\ \A i \in 1..Len(loc_sources) :
              LET f == loc_sources[i].frame
                  r == loc_sources[i].rotation
                  sc == loc_sources[i].scale
              IN /\ HasKeyAt(RotationKeys, f) =>
                       /\ r.from = "rot_keys_dict"
                       /\ RotationKeys[r.key].frame = f
                 /\ RotationKeys = <<>> => r.from = "identity"
                 /\ HasKeyAt(ScaleKeys, f) =>
                       /\ sc.from = "scale_keys_dict"
                       /\ ScaleKeys[sc.key].frame = f
                 /\ ScaleKeys = <<>> => sc.from = "1.0"

\* a bone with two location keys, one at the frame of a rotation key and one
\* at a frame without, and another bone before it
C24_Witness ==
    /\ pc = "extend"
    /\ bone_idx = 2
    /\ Len(loc_sources) = 2
    /\ loc_sources[1].rotation.from = "rot_keys_dict"
    /\ loc_sources[2].rotation.from = "fcurves"
    /\ loc_sources[1].scale.from = "1.0"

-----------------------------------------------------------------------------
(* Properties of the extra matrix dictionary *)

SomeExtraMatrixRead == \E b \in ArmBlocks : extra_reads[b] > 0

\* no entry is assigned twice, an entry that is read has been assigned, and
\* no entry is assigned after an entry was read
WriteOnceReadAfter ==
    /\ \A b \in ArmBlocks : DICT_BONES_EXTRA_MATRIX'[b] <= 1
    /\ \A b \in ArmBlocks : extra_reads'[b] > extra_reads[b] =>
          DICT_BONES_EXTRA_MATRIX[b] = 1
    /\ SomeExtraMatrixRead => DICT_BONES_EXTRA_MATRIX' = DICT_BONES_EXTRA_MATRIX

\* import_armature_animation is running or import_armature has returned
BonesImported == pc \in {"pose_bones", "done", "AttributeError", "KeyError"}

\* C25: no entry of the extra matrix dictionary is assigned twice; when the
\* import_bone calls of import_armature are over, before
\* import_armature_animation reads an entry, every bone of the armature has
\* its entry, assigned once; an entry that is read has been assigned; and no
\* entry is assigned after an entry was read.
C25_ExtraMatrixWriteOnce ==
    [][/\ WriteOnceReadAfter
       /\ BonesImported' =>
             \A b \in ArmatureBones(n_armature) : DICT_BONES_EXTRA_MATRIX'[b] = 1]_vars

\* the same, where the bones without an entry are those below a block of the
\* armature that is no bone
ExtraMatrixWriteOnceBelowBones ==
    [][/\ WriteOnceReadAfter
       /\ BonesImported' =>
             \A b \in ArmatureBones(n_armature) :
                /\ DICT_BONES_EXTRA_MATRIX'[b] <= 1
                /\ ArmatureTreeComplete(n_armature) => DICT_BONES_EXTRA_MATRIX'[b] = 1]_vars

\* an armature of three bones, one below another, all read
AllExtraMatricesRead ==
    /\ pc = "done"
    /\ import_animation
    /\ Len(pose_bones) = NumArmBlocks
    /\ \A b \in ArmBlocks : extra_reads[b] = 1 /\ DICT_BONES_EXTRA_MATRIX[b] = 1
    /\ \E b \in ArmBlocks : n_armature.parent[b] # 0

-----------------------------------------------------------------------------
(* Properties of the data import_kf_root makes for an interpolator *)

\* import_kf_root has attached a NiTransformInterpolator that came without a
\* data block
MergedWithoutData ==
    /\ kf_block.present
    /\ pc \notin {"start", "NifError"}
    /\ kf_block.interpolator.type = "NiTransformInterpolator"
    /\ ~kf_block.interpolator.has_data

\* C26: an interpolator attached without a data block has got one, with one
\* rotation key at time 0.0 that has the interpolator's rotation, no scale
\* key, and one translation key at time 0.0 that has the interpolator's
\* translation; when the translation's x is below -1000000 there is no
\* translation key, one warning was logged, and the priority of the
\* controlled block was stored as for any other block.
C26_DummyDataOfInterpolator ==
    MergedWithoutData =>
        LET kfi == kf_block.interpolator
            kfd == n_ctrl.interpolator.data
        IN /\ n_ctrl.interpolator.has_data
           /\ kfd.quaternion_keys = <<0>>
           /\ kfd.quaternion_values = <<kfi.rotation>>
           /\ kfd.scales = <<>>
           /\ DICT_BONE_PRIORITIES = <<kf_block.priority>>
           /\ IF kfi.translation.x < -1000000
              THEN /\ kfd.translations = <<>>
                   /\ kfd.translation_values = <<>>
                   /\ kf_warnings = 1
              ELSE /\ kfd.translations = <<0>>
                   /\ kfd.translation_values = <<kfi.translation>>
                   /\ kf_warnings = 0

\* the merge of an interpolator with an invalid translation, over
C26_Witness ==
    /\ MergedWithoutData
    /\ pc = "merged"
    /\ kf_block.interpolator.translation.x < -1000000
    /\ kf_block.interpolator.rotation # NoRotation
    /\ n_ctrl.interpolator.data.translations = <<>>

-----------------------------------------------------------------------------
(* Properties of the bone lists mark_armatures_bones leaves *)

NoBoneTwice ==
    \A r \in Nodes : IsArmature(DICT_ARMATURES, r) =>
        NoDuplicates(DICT_ARMATURES[r].bones)

\* the bones of the selected Blender armature were looked up by name
\* (lines 319-335)
SelectedArmatureMarked == props.skeleton = "GEOMETRY_ONLY" /\ ~props.armature_nifs

\* C27: after mark_armatures_bones has returned, in every mode, no block is
\* twice in the bone list of an armature.
C27_NoBoneTwice == pc = "done" => NoBoneTwice

\* the same for every mode but the one that marks the bones of the selected
\* armature, and in that mode when the call ended with an error
NoBoneTwiceUnlessSelected ==
    (pc # "start" /\ ~(SelectedArmatureMarked /\ pc = "done")) => NoBoneTwice

\* every entry of every bone list is a block strictly below the armature root
BonesBelowRoot ==
    \A r \in Nodes : IsArmature(DICT_ARMATURES, r) =>
        \A i \in 1..Len(DICT_ARMATURES[r].bones) :
            /\ DICT_ARMATURES[r].bones[i] # None
            /\ StrictlyBelow(DICT_ARMATURES[r].bones[i], r)

\* C28: whatever the skin instances of the file are, and however the call of
\* mark_armatures_bones ends, every entry of an armature's bone list is a
\* block strictly below the armature root: never the root itself, a block
\* outside its tree, or None.
C28_BonesBelowRoot == pc # "start" => BonesBelowRoot

\* the same for the calls that return
BonesBelowRootOnReturn == pc = "done" => BonesBelowRoot

-----------------------------------------------------------------------------
(* Properties of the frame rates of the channels of a bone *)

IsLocationKey(k) == k.target = "bone" /\ k.data_path = "location"

\* the location keys written for the bone, in order: one for each entry of
\* loc_sources
LocationKeys == SelectSeq(keyframes, IsLocationKey)

\* keys of the bone with one timestamp are at one frame, written with one
\* frame rate, and a location key is computed with the rotation and the scale
\* key of its timestamp, found in the dictionaries
SameFramePerTimestamp ==
    /\ \A i, j \in 1..Len(keyframes) :
          (IsBoneKey(keyframes[i]) /\ IsBoneKey(keyframes[j])
             /\ keyframes[i].time = keyframes[j].time) =>
                /\ keyframes[i].fps = keyframes[j].fps
                /\ keyframes[i].frame = keyframes[j].frame
    /\ \A k \in 1..Len(loc_sources) :
          /\ (\E j \in 1..Len(RotationKeys) :
                 RotationKeys[j].time = LocationKeys[k].time) =>
                /\ loc_sources[k].rotation.from = "rot_keys_dict"
                /\ RotationKeys[loc_sources[k].rotation.key].frame =
                      LocationKeys[k].frame
          /\ (\E j \in 1..Len(ScaleKeys) :
                 ScaleKeys[j].time = LocationKeys[k].time) =>
                /\ loc_sources[k].scale.from = "scale_keys_dict"
                /\ ScaleKeys[loc_sources[k].scale.key].frame = LocationKeys[k].frame

\* C29: the scale, rotation and translation keys of a bone are all converted
\* with one frames-per-second value, so keys with one timestamp are at one
\* frame and a location key is computed with the rotation and scale key of
\* its timestamp, looked up by its frame.
C29_OneFpsForEveryChannel == SameFramePerTimestamp

\* the same when the three attributes read by the channels hold one value
OneFpsWhenAttributesAgree ==
    (animation_fps = armature_fps /\ animation_fps = FPS) => SameFramePerTimestamp

\* a scale key and a location key of one timestamp at two frames: the
\* location key was computed with a scale evaluated from the fcurves
TimestampAtTwoFrames ==
    /\ Len(loc_sources) = 1
    /\ Len(ScaleKeys) = 1
    /\ ScaleKeys[1].time = LocationKeys[1].time
    /\ ScaleKeys[1].frame # LocationKeys[1].frame
    /\ loc_sources[1].scale.from = "fcurves"

-----------------------------------------------------------------------------
(* Properties of the length of the edit bones *)

====
